---- MODULE Spec2Model ----
(***************************************************************************)
(* A model of w2j (WizNote -> Joplin migration): the conversion cache      *)
(* (ConvertUtil, a sqlite file mirrored in memory), the synchronisation    *)
(* driver (Adapter) and the body rewriter (w2j.parser).                    *)
(*                                                                         *)
(* Python str values are tuples of one-character strings, so that split,   *)
(* join, slicing and replace are computed and not assumed.  Python None is *)
(* the one-element tuple None.  A process is one run of w2j.main(): its    *)
(* memory (mem, run) is lost when the process ends, the sqlite file (db)   *)
(* and the Joplin service (target) are kept.                               *)
(***************************************************************************)
EXTENDS Integers, Sequences, FiniteSets, TLC

\* How many times the process may be started again (after a kill, a fatal
\* error or a completed run).
MaxRestarts == 2

\* The longest list of documents the source store holds.
MaxDocs == 2

----------------------------------------------------------------------------
\* Python values

None == <<"None">>

Range(s) == { s[i] : i \in DOMAIN s }

Rep(c, n) == [i \in 1..n |-> c]

Digits == <<"0", "1", "2", "3", "4", "5", "6", "7", "8", "9">>

\* The text of a small natural number.
NatStr(n) == <<Digits[(n \div 10) + 1], Digits[(n % 10) + 1]>>

\* s[1:-1]
SliceInner(s) == IF Len(s) <= 2 THEN <<>> ELSE SubSeq(s, 2, Len(s) - 1)

\* s.split("/"), cur being the segment read so far
RECURSIVE SplitFrom(_, _)
SplitFrom(s, cur) ==
    IF s = <<>> THEN <<cur>>
    ELSE IF Head(s) = "/" THEN <<cur>> \o SplitFrom(Tail(s), <<>>)
    ELSE SplitFrom(Tail(s), Append(cur, Head(s)))

split(s) == SplitFrom(s, <<>>)

\* "/".join(parts)
RECURSIVE join(_)
join(parts) ==
    IF parts = <<>> THEN <<>>
    ELSE IF Len(parts) = 1 THEN parts[1]
    ELSE parts[1] \o <<"/">> \o join(Tail(parts))

\* w2j.parser.tojoplinid: "".join(guid.split("-"))
tojoplinid(guid) == SelectSeq(guid, LAMBDA c : c # "-")

\* w2j.parser.towizid: hyphens put back after 8, 12, 16 and 20 characters
PySub(s, a, b) == SubSeq(s, a + 1, IF b < Len(s) THEN b ELSE Len(s))

\* (a variant with the last hyphen one character late)
towizid_late(id) ==
    PySub(id, 0, 8) \o <<"-">> \o PySub(id, 8, 12) \o <<"-">> \o PySub(id, 12, 16)
        \o <<"-">> \o PySub(id, 16, 21) \o <<"-">> \o PySub(id, 21, Len(id))

towizid(id) ==
    PySub(id, 0, 8) \o <<"-">> \o PySub(id, 8, 12) \o <<"-">> \o PySub(id, 12, 16)
        \o <<"-">> \o PySub(id, 16, 20) \o <<"-">> \o PySub(id, 20, Len(id))

----------------------------------------------------------------------------
\* Location2Folder

\* (a variant whose parent is the path without its last character)
Location2FolderCut(location) ==
    LET titles == split(SliceInner(location))
        level  == Len(titles)
    IN  [ location        |-> location,
          title           |-> titles[level],
          parent_location |-> IF level > 1
                              THEN SubSeq(location, 1, Len(location) - 1)
                              ELSE None,
          level           |-> level,
          id              |-> None,
          parent_id       |-> None ]

\* (a variant that counts the levels from 0)
Location2FolderFromZero(location) ==
    LET titles == split(SliceInner(location))
        level  == Len(titles)
    IN  [ location        |-> location,
          title           |-> titles[level],
          parent_location |-> IF level > 1
                              THEN <<"/">> \o join(SubSeq(titles, 1, level - 1)) \o <<"/">>
                              ELSE None,
          level           |-> level - 1,
          id              |-> None,
          parent_id       |-> None ]

\* Location2Folder(location): title, level and parent derived from the path
Location2Folder(location) ==
    LET titles == split(SliceInner(location))
        level  == Len(titles)
    IN  [ location        |-> location,
          title           |-> titles[level],
          parent_location |-> IF level > 1
                              THEN <<"/">> \o join(SubSeq(titles, 1, level - 1)) \o <<"/">>
                              ELSE None,
          level           |-> level,
          id              |-> None,
          parent_id       |-> None ]

\* dict.get on the location-keyed l2f_cache (a list in insertion order)
L2fIndex(cache, location) ==
    IF \E i \in DOMAIN cache : cache[i].location = location
    THEN CHOOSE i \in DOMAIN cache : cache[i].location = location
    ELSE 0

L2fGet(cache, location) ==
    IF L2fIndex(cache, location) = 0 THEN None ELSE cache[L2fIndex(cache, location)]

\* (a variant that looks at the entry added last only)
L2fHasLast(cache, location) ==
    cache # <<>> /\ cache[Len(cache)].location = location

L2fHas(cache, location) == L2fIndex(cache, location) # 0

MaxLevel(cache) ==
    IF cache = <<>> THEN 0
    ELSE CHOOSE m \in { cache[i].level : i \in DOMAIN cache } :
            \A i \in DOMAIN cache : cache[i].level <= m

\* list.sort(key=level) is stable: entries of one level keep their order
RECURSIVE SortFromLevel(_, _, _)
SortFromLevel(entries, k, top) ==
    IF k > top THEN <<>>
    ELSE SelectSeq(entries, LAMBDA e : e.level = k) \o SortFromLevel(entries, k + 1, top)

RECURSIVE SortDownFromLevel(_, _)
SortDownFromLevel(entries, k) ==
    IF k < 1 THEN <<>>
    ELSE SelectSeq(entries, LAMBDA e : e.level = k) \o SortDownFromLevel(entries, k - 1)

SortDescending(entries) == SortDownFromLevel(entries, MaxLevel(entries))

SortByLevel(entries) == SortFromLevel(entries, 0, MaxLevel(entries))

\* (a variant without the filter on id)
get_waiting_all(cache) ==
    LET sorted == SortByLevel(cache)
    IN  [i \in DOMAIN sorted |-> sorted[i].location]

\* ConvertUtil.get_waiting_for_created_l2f, as the list of the locations
get_waiting_for_created_l2f(cache) ==
    LET sorted == SortByLevel(SelectSeq(cache, LAMBDA e : e.id = None))
    IN  [i \in DOMAIN sorted |-> sorted[i].location]

----------------------------------------------------------------------------
\* The source store (WizStorage after resolve()): documents and tags

Guid(a, z) ==
    Rep(a, 8) \o <<"-">> \o Rep(a, 4) \o <<"-">> \o Rep(a, 4) \o <<"-">>
        \o Rep(a, 4) \o <<"-">> \o Rep(a, 11) \o <<z>>

LocA  == <<"/", "a", "/">>
LocAB == <<"/", "a", "/", "b", "/">>
LocC  == <<"/", "c", "/">>

\* The literal text of the inline references found in the bodies
ImgHtml1 == <<"<", "i", "1", ">">>
ImgHtml3 == <<"<", "i", "3", ">">>
ImgHtmlQ == <<"<", "i", "q", ">">>
AttHtml  == <<"<", "a", "1", ">">>
DocHtml  == <<"<", "d", "1", ">">>

\* A piece of a note body: plain text ("text"), the literal text of an inline
\* reference ("lit", a = the literal), a reference in Joplin's form ("md_link",
\* "md_image", "html_a", "html_img": a = resource id, b = title), the heading
\* of the trailing block ("md_heading", "html_heading") and the wrapping of its
\* list ("md_item", "html_li": followed by the reference it holds).
Tok(t, a, b) == [t |-> t, a |-> a, b |-> b]
Text(c) == Tok("text", <<c>>, <<>>)
Lit(o)  == Tok("lit", o, <<>>)

WizImage(file, exists, outerhtml) ==
    [file |-> file, exists |-> exists, outerhtml |-> outerhtml]

\* The attributes of a WizAttachment: guid, name, file_name, file (the path on
\* disk, here whether the file is there)
WizAttachment(guid, name, exists) ==
    [ guid |-> guid, name |-> name, file_name |-> <<"{">> \o guid \o <<"}">> \o name,
      file |-> exists ]

WizInternalLink(outerhtml, guid, title, link_type) ==
    [outerhtml |-> outerhtml, guid |-> guid, title |-> title, link_type |-> link_type]

WizTag(guid, name) == [guid |-> guid, name |-> name]

Tag1  == WizTag(Guid("e", "1"), <<"t">>)
Tag2  == WizTag(Guid("e", "2"), <<"u">>)
\* another tag of the same name (WizNote's tags form a tree)
Tag1b == WizTag(Guid("e", "3"), <<"t">>)

Att1 == WizAttachment(Guid("a", "1"), <<"f">>, TRUE)

\* a note in /a/b/ with an image
Doc1 ==
    [ guid |-> Guid("d", "1"), title |-> <<"n", "1">>, location |-> LocAB,
      is_markdown |-> FALSE,
      body |-> <<Text("x"), Lit(ImgHtml1)>>,
      tags |-> <<Tag1>>,
      attachments |-> <<>>,
      images |-> <<WizImage(<<"1", "/", "p">>, TRUE, ImgHtml1)>>,
      internal_links |-> <<>> ]

\* a markdown note in /c/ with an attachment that its body links to
Doc2 ==
    [ guid |-> Guid("d", "2"), title |-> <<"n", "2">>, location |-> LocC,
      is_markdown |-> TRUE,
      body |-> <<Lit(AttHtml), Text("y")>>,
      tags |-> <<Tag1, Tag2>>,
      attachments |-> <<Att1>>,
      images |-> <<>>,
      internal_links |-> <<WizInternalLink(AttHtml, Att1.guid, <<"f">>, "open_attachment")>> ]

\* a note in /a/ that links to Doc1, with an image whose file has the name of
\* Doc1's image and an image whose file is missing
Doc3 ==
    [ guid |-> Guid("d", "3"), title |-> <<"n", "3">>, location |-> LocA,
      is_markdown |-> FALSE,
      body |-> <<Lit(DocHtml), Lit(ImgHtml3), Text("z"), Lit(ImgHtmlQ)>>,
      tags |-> <<>>,
      attachments |-> <<>>,
      images |-> <<WizImage(<<"3", "/", "p">>, TRUE, ImgHtml3),
                   WizImage(<<"3", "/", "q">>, FALSE, ImgHtmlQ)>>,
      internal_links |-> <<WizInternalLink(DocHtml, Guid("d", "1"), <<"n", "1">>, "open_document")>> ]

DocUniverse == {Doc1, Doc2, Doc3}

SeqsUpTo(S, n) == UNION { [1..k -> S] : k \in 1..n }

NoRepeat(s) == \A i, j \in DOMAIN s : i # j => s[i] # s[j]

DocLists == { s \in SeqsUpTo(DocUniverse, MaxDocs) : NoRepeat(s) }

TagLists == { <<Tag1>>, <<Tag1, Tag2>>, <<Tag1, Tag1b>> }

\* (a variant that keeps the directories of the path)
basename_path(file) == file

\* os.path.basename
basename(file) == LET parts == split(file) IN parts[Len(parts)]

----------------------------------------------------------------------------
\* w2j.parser: JoplinInternalLink and the rewriting of a body

JoplinInternalLink(note_id, resource_id, title, link_type, outertext) ==
    [ note_id |-> note_id, resource_id |-> resource_id, title |-> title,
      link_type |-> link_type, outertext |-> outertext ]

\* JoplinInternalLink.id
JilId(jil) == jil.note_id \o <<"-">> \o jil.resource_id

\* Python truth of a str-or-None value
Truthy(s) == s # None /\ s # <<>>

\* gen_ilstr: the reference in Joplin's form
gen_ilstr(is_markdown, jil) ==
    IF is_markdown
    THEN IF jil.link_type = "image"
         THEN Tok("md_image", jil.resource_id, jil.title)
         ELSE Tok("md_link", jil.resource_id, jil.title)
    ELSE IF jil.link_type = "image"
         THEN Tok("html_img", jil.resource_id, jil.title)
         ELSE Tok("html_a", jil.resource_id, jil.title)

RECURSIVE EndItems(_, _)
EndItems(is_markdown, jils) ==
    IF jils = <<>> THEN <<>>
    ELSE (IF is_markdown
          THEN <<Tok("md_item", <<>>, <<>>), gen_ilstr(is_markdown, Head(jils))>>
          ELSE <<Tok("html_li", <<>>, <<>>), gen_ilstr(is_markdown, Head(jils))>>)
         \o EndItems(is_markdown, Tail(jils))

\* gen_end_ilstr: the heading and the list put at the end of a body
gen_end_ilstr(is_markdown, jils) ==
    IF is_markdown
    THEN <<Tok("md_heading", <<>>, <<>>)>> \o EndItems(is_markdown, jils)
    ELSE <<Tok("html_heading", <<>>, <<>>)>> \o EndItems(is_markdown, jils)

\* a variant of str.replace that stops after the first occurrence (count=1)
replace_first(body, old, new) ==
    LET at == { i \in DOMAIN body : body[i].t = "lit" /\ body[i].a = old }
    IN  [i \in DOMAIN body |->
            IF i \in at /\ (\A j \in at : i <= j) THEN new ELSE body[i]]

\* str.replace(old, new): every occurrence of the literal
replace(body, old, new) ==
    [i \in DOMAIN body |-> IF body[i].t = "lit" /\ body[i].a = old THEN new ELSE body[i]]

\* inscriptis.get_text: the markup left in the body is rendered as text
get_text(body) ==
    [i \in DOMAIN body |-> IF body[i].t = "lit" THEN Tok("text", body[i].a, <<>>) ELSE body[i]]

\* the loop of convert_joplin_body over the links: the body after the replacements
RECURSIVE ReplaceLinks(_, _, _)
ReplaceLinks(body, is_markdown, links) ==
    IF links = <<>> THEN body
    ELSE ReplaceLinks(
            IF Truthy(Head(links).outertext)
            THEN replace(body, Head(links).outertext, gen_ilstr(is_markdown, Head(links)))
            ELSE body,
            is_markdown, Tail(links))

\* the links convert_joplin_body collects in insert_to_end
InsertToEndNotInline(links) ==
    SelectSeq(links, LAMBDA jil : jil.link_type = "open_attachment" /\ ~Truthy(jil.outertext))

InsertToEnd(links) == SelectSeq(links, LAMBDA jil : jil.link_type = "open_attachment")

\* a variant of convert_joplin_body without the test "if insert_to_end"
convert_joplin_body_always(body, is_markdown, internal_links) ==
    LET replaced == ReplaceLinks(body, is_markdown, internal_links)
        text     == IF is_markdown THEN get_text(replaced) ELSE replaced
    IN  text \o gen_end_ilstr(is_markdown, InsertToEnd(internal_links))

\* convert_joplin_body: the replacements in the order of the links, the
\* rendering of a markdown body, then the trailing block when it has entries
convert_joplin_body(body, is_markdown, internal_links) ==
    LET replaced == ReplaceLinks(body, is_markdown, internal_links)
        text     == IF is_markdown THEN get_text(replaced) ELSE replaced
        end      == InsertToEnd(internal_links)
    IN  IF end # <<>> THEN text \o gen_end_ilstr(is_markdown, end) ELSE text

----------------------------------------------------------------------------
\* State

VARIABLES
    source,     \* WizStorage: [documents, tags], and the arguments of w2j (args)
    db,         \* the tables of w2j.sqlite (ConvertUtil.conn), committed rows
    target,     \* the Joplin service behind JoplinDataAPI
    mem,        \* ConvertUtil's dicts of the running process
    run,        \* the running process: where it is (pc) and its local variables
    restarts,   \* how many times the process was started again
    log,        \* the calls the running process has made to the Joplin service
    prev        \* how the previous process ended and what it left behind

vars == <<source, db, target, mem, run, restarts, log, prev>>

EmptyDb ==
    [ l2f |-> <<>>, tag |-> {}, resource |-> {}, note |-> {}, internal_link |-> {},
      note_tag |-> {} ]

EmptyTarget == [folders |-> {}, tags |-> {}, resources |-> <<>>, notes |-> {}, next_id |-> 1]

EmptyMem ==
    [ l2f_cache |-> <<>>, folders |-> {}, tags |-> {}, resources |-> {},
      internal_links |-> {}, notes |-> {}, folder_max_level |-> 0 ]

RunInit ==
    [ pc |-> "start", error |-> "", di |-> 1, build_loc |-> None,
      waiting |-> <<>>, fi |-> 1, jf |-> None,
      wtags |-> <<>>, ti |-> 1, jt |-> None,
      links |-> <<>>, ai |-> 1, ii |-> 1, jr |-> None, note |-> None, li |-> 1,
      locations |-> <<>> ]

Ended == {"done", "aborted"}

\* the command line: --all, or --location with or without --location-children
ArgsAll == [all |-> TRUE, location |-> None, location_children |-> FALSE]

ArgsLocation(location, with_children) ==
    [all |-> FALSE, location |-> location, location_children |-> with_children]

\* a document's tags are tags of the store
WithStoreTags(doc, tags) ==
    [doc EXCEPT !.tags = SelectSeq(doc.tags, LAMBDA t : t \in Range(tags))]

Init ==
    /\ \E docs \in DocLists, tags \in TagLists :
          source = [ documents |-> [i \in DOMAIN docs |-> WithStoreTags(docs[i], tags)],
                     tags |-> tags, args |-> ArgsAll ]
    /\ db = EmptyDb
    /\ target = EmptyTarget
    /\ mem = EmptyMem
    /\ run = RunInit
    /\ restarts = 0
    /\ log = <<>>
    /\ prev = [end |-> "none", target |-> EmptyTarget, db |-> EmptyDb]

Doc == source.documents[run.di]

Call(op, key, level, ok) == [op |-> op, key |-> key, level |-> level, ok |-> ok]

Abort(msg) == [run EXCEPT !.pc = "aborted", !.error = msg]

\* an id the Joplin service gives to a new folder or resource
NewId == <<"j">> \o NatStr(target.next_id)

----------------------------------------------------------------------------
\* ConvertUtil.init_cache

\* convert_l2f, lines 245-252: the rows of l2f become l2f_cache
convert_l2f ==
    /\ run.pc = "start"
    /\ mem' = [mem EXCEPT !.l2f_cache = db.l2f]
    /\ run' = [run EXCEPT !.pc = "build", !.di = 1,
                           !.build_loc = source.documents[1].location]
    /\ UNCHANGED <<source, db, target, restarts, log, prev>>

\* (a variant that goes up only from an entry it has just inserted)
HasParentToBuildWhenNew(present, l2f_inst) ==
    ~present /\ l2f_inst.parent_location # None

\* line 233: the recursion goes on when the entry, found or inserted, has a parent
HasParentToBuild(present, l2f_inst) == l2f_inst.parent_location # None

\* build_location_to_top, one call of the recursion: the entry of build_loc is
\* inserted (and committed) when it is not there, then its parent is built; the
\* call made by convert_l2f's loop for the next document follows the last one.
build_location_to_top ==
    /\ run.pc = "build"
    /\ LET location == run.build_loc
           present  == L2fHas(mem.l2f_cache, location)
           l2f_inst == IF present THEN L2fGet(mem.l2f_cache, location)
                       ELSE Location2Folder(location)
           top      == IF l2f_inst.level > mem.folder_max_level
                       THEN l2f_inst.level ELSE mem.folder_max_level
       IN  /\ mem' = [mem EXCEPT
                        !.l2f_cache = IF present THEN @ ELSE Append(@, l2f_inst),
                        !.folder_max_level = top]
           /\ db' = IF present THEN db ELSE [db EXCEPT !.l2f = Append(@, l2f_inst)]
           /\ run' = IF HasParentToBuild(present, l2f_inst)
                      THEN [run EXCEPT !.build_loc = l2f_inst.parent_location]
                      ELSE IF run.di < Len(source.documents)
                      THEN [run EXCEPT !.di = @ + 1,
                                       !.build_loc = source.documents[run.di + 1].location]
                      ELSE [run EXCEPT !.pc = "load", !.build_loc = None, !.di = 1]
    /\ UNCHANGED <<source, target, restarts, log, prev>>

JoplinFolder(id, title, parent_id) == [id |-> id, title |-> title, parent_id |-> parent_id]

\* load_folders: a dict keyed by l2f.id (None for the entries not created yet),
\* a later entry of the same key replacing an earlier one
load_folders(cache) ==
    { JoplinFolder(cache[i].id, cache[i].title, cache[i].parent_id) :
        i \in { k \in DOMAIN cache : \A j \in DOMAIN cache : j > k => cache[j].id # cache[k].id } }

Ids(dict) == { x.id : x \in dict }

DictGet(dict, id) == CHOOSE x \in dict : x.id = id

\* load_internal_links / get_internal_links: a row as a JoplinInternalLink
LinkOfRow(row) ==
    JoplinInternalLink(row.note_id, row.resource_id, row.title, row.link_type, <<>>)

\* load_notes: a row of note as a JoplinNote with its links
NoteOfRow(row) ==
    [ id |-> row.note_id, title |-> row.title, parent_id |-> row.joplin_folder,
      is_markdown |-> row.markup_language, location |-> row.wiz_location,
      internal_links |-> { LinkOfRow(l) : l \in { x \in db.internal_link : x.note_id = row.note_id } } ]

\* load_folders, load_tags, load_resources, load_internal_links, load_notes
load_cache ==
    /\ run.pc = "load"
    /\ LET folders == load_folders(mem.l2f_cache)
       IN  IF \E row \in db.note : row.joplin_folder \notin Ids(folders)
           THEN \* jn.folder = self.folders[jn.parent_id]: KeyError
                /\ run' = Abort("KeyError")
                /\ mem' = [mem EXCEPT !.folders = folders, !.tags = db.tag,
                                      !.resources = db.resource,
                                      !.internal_links = { LinkOfRow(l) : l \in db.internal_link }]
           ELSE /\ run' = [run EXCEPT !.pc = "sync_folders"]
                /\ mem' = [mem EXCEPT !.folders = folders, !.tags = db.tag,
                                      !.resources = db.resource,
                                      !.internal_links = { LinkOfRow(l) : l \in db.internal_link },
                                      !.notes = { NoteOfRow(row) : row \in db.note }]
    /\ UNCHANGED <<source, db, target, restarts, log, prev>>

----------------------------------------------------------------------------
\* Adapter.sync_folders

\* the process goes on to sync_tags
ToSyncTags == [run EXCEPT !.pc = "sync_tags", !.fi = 1, !.jf = None]

\* (a variant that creates the folders of the requested location and of the
\* locations below it only)
sync_folders_in_scope ==
    /\ run.pc = "sync_folders"
    /\ LET waiting_created_l2f ==
              SelectSeq(get_waiting_for_created_l2f(mem.l2f_cache),
                        LAMBDA l : \/ source.args.all
                                   \/ /\ Len(l) >= Len(source.args.location)
                                      /\ SubSeq(l, 1, Len(source.args.location))
                                            = source.args.location)
       IN  IF waiting_created_l2f = <<>>
           THEN /\ run' = [ToSyncTags EXCEPT !.waiting = <<>>]
                /\ mem' = [mem EXCEPT !.folders = load_folders(mem.l2f_cache)]
           ELSE /\ run' = [run EXCEPT !.pc = "folder", !.waiting = waiting_created_l2f,
                                      !.fi = 1]
                /\ mem' = mem
    /\ UNCHANGED <<source, db, target, restarts, log, prev>>

\* line 496: the entries to create, lowest level first; with none to create only
\* load_folders (line 520) is left to do
sync_folders ==
    /\ run.pc = "sync_folders"
    /\ LET waiting_created_l2f == get_waiting_for_created_l2f(mem.l2f_cache)
       IN  IF waiting_created_l2f = <<>>
           THEN /\ run' = [ToSyncTags EXCEPT !.waiting = <<>>]
                /\ mem' = [mem EXCEPT !.folders = load_folders(mem.l2f_cache)]
           ELSE /\ run' = [run EXCEPT !.pc = "folder", !.waiting = waiting_created_l2f,
                                      !.fi = 1]
                /\ mem' = mem
    /\ UNCHANGED <<source, db, target, restarts, log, prev>>

\* JoplinDataAPI.post_folder: the service adds a folder under an id of its own.
\* wiz_location is not a field of Joplin: it records which entry the call was for.
TargetWithFolder(title, parent_id, location) ==
    [target EXCEPT
        !.folders = @ \cup {[id |-> NewId, title |-> title, parent_id |-> parent_id,
                             wiz_location |-> location]},
        !.next_id = @ + 1]

\* lines 504 and 508-516: what the loop does with an entry
FolderCase(l2f) ==
    IF l2f.parent_location = None THEN "root"
    ELSE IF ~L2fHas(mem.l2f_cache, l2f.parent_location) THEN "parent not found"
    ELSE IF L2fGet(mem.l2f_cache, l2f.parent_location).id = None THEN "parent no id"
    ELSE "child"

\* lines 500-517, one turn of the loop up to the answer of post_folder
post_folder ==
    /\ run.pc = "folder"
    /\ LET l2f  == L2fGet(mem.l2f_cache, run.waiting[run.fi])
           case == FolderCase(l2f)
           parent_id == IF case = "child" /\ L2fHas(mem.l2f_cache, l2f.parent_location)
                        THEN L2fGet(mem.l2f_cache, l2f.parent_location).id
                        ELSE IF case = "child" THEN None ELSE <<>>
       IN  IF case \in {"root", "child"}
           THEN /\ target' = TargetWithFolder(l2f.title, parent_id, l2f.location)
                /\ run' = [run EXCEPT !.pc = "folder_update",
                                      !.jf = JoplinFolder(NewId, l2f.title, parent_id)]
                /\ log' = Append(log, Call("post_folder", l2f.location, l2f.level, TRUE))
           ELSE /\ run' = Abort(case)
                /\ UNCHANGED <<target, log>>
    /\ UNCHANGED <<source, db, mem, restarts, prev>>

\* (a variant that sets the id and leaves the parent id alone)
UpdateEntryIdOnly(cache, location, id, parent_id) ==
    [i \in DOMAIN cache |->
        IF cache[i].location = location THEN [cache[i] EXCEPT !.id = id] ELSE cache[i]]

\* ConvertUtil.update_l2f on the entries held in memory
UpdateEntry(cache, location, id, parent_id) ==
    [i \in DOMAIN cache |->
        IF cache[i].location = location
        THEN [cache[i] EXCEPT !.id = id,
                              !.parent_id = IF parent_id # None THEN parent_id ELSE @]
        ELSE cache[i]]

\* (a variant with the wrong column in WHERE)
UpdateRowOfParent(rows, l2f_inst) ==
    [i \in DOMAIN rows |->
        IF rows[i].parent_location = l2f_inst.location
        THEN [rows[i] EXCEPT !.id = l2f_inst.id, !.parent_id = l2f_inst.parent_id]
        ELSE rows[i]]

\* UPDATE l2f SET parent_id=:parent_id, id=:id WHERE location=:location
UpdateRow(rows, l2f_inst) ==
    [i \in DOMAIN rows |->
        IF rows[i].location = l2f_inst.location
        THEN [rows[i] EXCEPT !.id = l2f_inst.id, !.parent_id = l2f_inst.parent_id]
        ELSE rows[i]]

\* lines 506 and 518: update_l2f with the folder post_folder answered; after the
\* last entry, load_folders (line 520)
update_l2f ==
    /\ run.pc = "folder_update"
    /\ LET location == run.waiting[run.fi]
           l2f      == L2fGet(mem.l2f_cache, location)
           cache    == UpdateEntry(mem.l2f_cache, location, run.jf.id,
                                   IF l2f.parent_location = None THEN None
                                   ELSE run.jf.parent_id)
           last     == run.fi = Len(run.waiting)
       IN  /\ mem' = [mem EXCEPT !.l2f_cache = cache,
                                 !.folders = IF last THEN load_folders(cache) ELSE @]
           /\ db' = [db EXCEPT !.l2f = UpdateRow(@, L2fGet(cache, location))]
           /\ run' = IF last THEN ToSyncTags
                      ELSE [run EXCEPT !.pc = "folder", !.fi = @ + 1, !.jf = None]
    /\ UNCHANGED <<source, target, restarts, log, prev>>

----------------------------------------------------------------------------
\* Adapter.sync_tags

JoplinTag(id, title) == [id |-> id, title |-> title]

\* the documents _sync_note is called for: every document (sync_all, line 757)
\* or those whose location is in locations (sync_note_by_location, line 743)
Selected(r, i) ==
    source.args.all \/ source.documents[i].location \in Range(r.locations)

\* the loop over the documents goes on with the first of them from k on, or is over
\* (a variant that takes the last of the documents left)
LoopFromLast(r, k) ==
    LET rest == { i \in k..Len(source.documents) : Selected(r, i) }
    IN  IF rest = {} THEN [r EXCEPT !.pc = "done", !.di = 1]
        ELSE [r EXCEPT !.pc = "note", !.di = CHOOSE i \in rest : \A j \in rest : j <= i]

LoopFrom(r, k) ==
    LET rest == { i \in k..Len(source.documents) : Selected(r, i) }
    IN  IF rest = {} THEN [r EXCEPT !.pc = "done", !.di = 1]
        ELSE [r EXCEPT !.pc = "note", !.di = CHOOSE i \in rest : \A j \in rest : i <= j]

\* sync_tags has returned: sync_all goes on to the loop over the documents,
\* sync_note_by_location to the list of the locations (line 739)
ToNotes ==
    LET r == [run EXCEPT !.wtags = <<>>, !.ti = 1, !.jt = None]
    IN  IF source.args.all THEN LoopFrom(r, 1) ELSE [r EXCEPT !.pc = "locations"]

\* lines 524-527: the tags of the store that are not in the cache
sync_tags ==
    /\ run.pc = "sync_tags"
    /\ LET waiting_create_tags ==
              SelectSeq(source.tags, LAMBDA wt : tojoplinid(wt.guid) \notin Ids(mem.tags))
       IN  run' = IF waiting_create_tags = <<>> THEN ToNotes
                  ELSE [run EXCEPT !.pc = "tag", !.wtags = waiting_create_tags, !.ti = 1]
    /\ UNCHANGED <<source, db, target, mem, restarts, log, prev>>

\* lines 531-539 and 544-545: post_tag; the service refuses an id it already has
\* (SQLITE_CONSTRAINT: UNIQUE constraint failed), and the tag is then read with
\* get_tag
post_tag ==
    /\ run.pc = "tag"
    /\ LET wt     == run.wtags[run.ti]
           tag_id == tojoplinid(wt.guid)
       IN  IF tag_id \in Ids(target.tags)
           THEN /\ target' = target
                /\ run' = [run EXCEPT !.pc = "tag_add", !.jt = DictGet(target.tags, tag_id)]
                /\ log' = log \o <<Call("post_tag", tag_id, 0, FALSE),
                                    Call("get_tag", tag_id, 0, TRUE)>>
           ELSE /\ target' = [target EXCEPT !.tags = @ \cup {JoplinTag(tag_id, wt.name)}]
                /\ run' = [run EXCEPT !.pc = "tag_add", !.jt = JoplinTag(tag_id, wt.name)]
                /\ log' = Append(log, Call("post_tag", tag_id, 0, TRUE))
    /\ UNCHANGED <<source, db, mem, restarts, prev>>

\* (a variant of the table without the index idx_title)
TagClashOnId(tag) == \E row \in db.tag : row.id = tag.id

\* PRIMARY KEY (tag_id) and UNIQUE INDEX idx_title: the INSERT of add_tag fails
\* on an id or on a title that a row of tag has
TagClash(tag) == \E row \in db.tag : row.id = tag.id \/ row.title = tag.title

\* ConvertUtil.add_tag (lines 540 and 546): nothing for a tag the cache has; the
\* INSERT fails on a tag_id (primary key) or a title (idx_title) the table has,
\* an sqlite3.IntegrityError that sync_tags does not catch
add_tag ==
    /\ run.pc = "tag_add"
    /\ LET tag  == run.jt
           next == IF run.ti < Len(run.wtags)
                   THEN [run EXCEPT !.pc = "tag", !.ti = @ + 1, !.jt = None]
                   ELSE ToNotes
       IN  IF tag.id \in Ids(mem.tags)
           THEN /\ run' = next
                /\ UNCHANGED <<db, mem>>
           ELSE IF TagClash(tag)
           THEN /\ run' = Abort("IntegrityError")
                /\ UNCHANGED <<db, mem>>
           ELSE /\ db' = [db EXCEPT !.tag = @ \cup {tag}]
                /\ mem' = [mem EXCEPT !.tags = @ \cup {tag}]
                /\ run' = next
    /\ UNCHANGED <<source, target, restarts, log, prev>>

----------------------------------------------------------------------------
\* Adapter._sync_note

\* dict[key] = value on the dict of links, kept in insertion order
PutLink(links, jil) ==
    IF \E i \in DOMAIN links : JilId(links[i]) = JilId(jil)
    THEN [i \in DOMAIN links |-> IF JilId(links[i]) = JilId(jil) THEN jil ELSE links[i]]
    ELSE Append(links, jil)

RECURSIVE PutLinks(_, _)
PutLinks(links, jils) ==
    IF jils = <<>> THEN links ELSE PutLinks(PutLink(links, Head(jils)), Tail(jils))

\* lines 652-657: the links found in the body, their guid converted
InlineLinks(document) ==
    PutLinks(<<>>,
        [i \in DOMAIN document.internal_links |->
            LET wil == document.internal_links[i]
            IN  JoplinInternalLink(tojoplinid(document.guid), tojoplinid(wil.guid),
                                   wil.title, wil.link_type, wil.outerhtml)])

\* where _sync_note is once ai attachments and ii images are behind it
NoteStep(r, document) ==
    IF r.ai <= Len(document.attachments) THEN [r EXCEPT !.pc = "attachment"]
    ELSE IF r.ii <= Len(document.images) THEN [r EXCEPT !.pc = "image"]
    ELSE [r EXCEPT !.pc = "post_note"]

\* lines 757-758 and 747-748: the next document, or the end of the run
NextDocument ==
    LET r == [run EXCEPT !.links = <<>>, !.ai = 1, !.ii = 1, !.jr = None,
                         !.note = None, !.li = 1]
    IN  LoopFrom(r, run.di + 1)

\* (a variant that finds no note)
NoteCachedNever(note_id) == FALSE

\* ConvertUtil.get_note(note_id) is not None
NoteCached(note_id) == note_id \in Ids(mem.notes)

\* lines 637-657: a document whose note the cache holds is left alone; for
\* another one the dict of links starts with the links of its body
sync_note ==
    /\ run.pc = "note"
    /\ run' = IF NoteCached(tojoplinid(Doc.guid)) THEN NextDocument
               ELSE NoteStep([run EXCEPT !.links = InlineLinks(Doc), !.ai = 1, !.ii = 1], Doc)
    /\ UNCHANGED <<source, db, target, mem, restarts, log, prev>>

\* (a variant that finds no resource)
ResourceByFilenameNone(filename) == <<>>

\* _get_resource_by_filename: the first resource of get_resources() of that title
ResourceByFilename(filename) ==
    LET hits == SelectSeq(target.resources, LAMBDA r : r.title = filename)
    IN  IF hits = <<>> THEN <<>> ELSE <<hits[1]>>

JoplinResource(id, title, filename) == [id |-> id, title |-> title, filename |-> filename]

\* JoplinDataAPI.create_resource: the service adds a resource under an id of its own
TargetWithResource(title, filename) ==
    [target EXCEPT !.resources = Append(@, JoplinResource(NewId, title, filename)),
                   !.next_id = @ + 1]

\* lines 660-677 with _upload_wiz_attachment: one attachment.  The upload reads
\* wiz_attachment.file_path, which a WizAttachment does not have: the
\* AttributeError is caught (line 598), the upload answers None and the
\* attachment is skipped.  With that attribute the file would be looked for, an
\* existing resource of that title reused or a resource created, and the link
\* added unless the dict holds one of that id.
upload_attachment ==
    /\ run.pc = "attachment"
    /\ LET attachment == Doc.attachments[run.ai]
           note_id    == tojoplinid(Doc.guid)
           next       == NoteStep([run EXCEPT !.ai = @ + 1], Doc)
       IN  IF "file_path" \notin DOMAIN attachment
           THEN /\ run' = next
                /\ UNCHANGED <<target, log>>
           ELSE IF ~attachment.file_path
           THEN /\ run' = next
                /\ UNCHANGED <<target, log>>
           ELSE LET existing == ResourceByFilename(attachment.file_name)
                    jr  == IF existing # <<>> THEN existing[1]
                           ELSE JoplinResource(NewId, attachment.file_name, attachment.file_name)
                    jil == JoplinInternalLink(note_id, jr.id, jr.title, "open_attachment", <<>>)
                IN  /\ target' = IF existing # <<>> THEN target
                                  ELSE TargetWithResource(attachment.file_name, attachment.file_name)
                    /\ log' = log \o <<Call("get_resources", attachment.file_name, 0, TRUE)>>
                                  \o (IF existing # <<>> THEN <<>>
                                      ELSE <<Call("create_resource", attachment.file_name, 0, TRUE)>>)
                    /\ run' = IF \E i \in DOMAIN run.links : JilId(run.links[i]) = JilId(jil)
                               THEN next
                               ELSE [next EXCEPT !.links = PutLink(@, jil)]
    /\ UNCHANGED <<source, db, mem, restarts, prev>>

\* (a variant that takes every image file to be there)
ImageMissingNever(image) == FALSE

\* _upload_wiz_image, lines 604-610: no file name, or no file of that name
ImageMissing(image) == image.file = None \/ ~image.exists

\* lines 680-690 with _upload_wiz_image up to the answer of create_resource: an
\* image without a file is skipped; a resource of the file's name that the
\* service already has is used as it is; otherwise the image is uploaded
upload_image ==
    /\ run.pc = "image"
    /\ LET image   == Doc.images[run.ii]
           note_id == tojoplinid(Doc.guid)
           next    == NoteStep([run EXCEPT !.ii = @ + 1], Doc)
       IN  IF ImageMissing(image)
           THEN /\ run' = next
                /\ UNCHANGED <<target, log>>
           ELSE LET filename == basename(image.file)
                    existing == ResourceByFilename(filename)
                IN  IF existing # <<>>
                    THEN /\ run' = [next EXCEPT !.links =
                                      PutLink(@, JoplinInternalLink(note_id, existing[1].id,
                                                  existing[1].title, "image", image.outerhtml))]
                         /\ log' = Append(log, Call("get_resources", filename, 0, TRUE))
                         /\ target' = target
                    ELSE /\ run' = [run EXCEPT !.pc = "add_resource",
                                               !.jr = JoplinResource(NewId, filename, filename)]
                         /\ log' = log \o <<Call("get_resources", filename, 0, TRUE),
                                             Call("create_resource", filename, 0, TRUE)>>
                         /\ target' = TargetWithResource(filename, filename)
    /\ UNCHANGED <<source, db, mem, restarts, prev>>

\* ConvertUtil.add_resource (line 626), then lines 686-690: the uploaded image
\* is recorded and its link added
add_resource ==
    /\ run.pc = "add_resource"
    /\ LET jr   == run.jr
           jil  == JoplinInternalLink(tojoplinid(Doc.guid), jr.id, jr.title, "image",
                                      Doc.images[run.ii].outerhtml)
       IN  /\ IF jr.id \in Ids(mem.resources)
              THEN UNCHANGED <<db, mem>>
              ELSE /\ db' = [db EXCEPT !.resource = @ \cup {jr}]
                   /\ mem' = [mem EXCEPT !.resources = @ \cup {jr}]
           /\ run' = NoteStep([run EXCEPT !.ii = @ + 1, !.jr = None,
                                          !.links = PutLink(@, jil)], Doc)
    /\ UNCHANGED <<source, target, restarts, log, prev>>

\* (a variant that answers a folder of the cache, whichever the location)
get_folder_any(location) ==
    IF mem.folders = {} THEN <<>> ELSE <<CHOOSE f \in mem.folders : TRUE>>

\* ConvertUtil.get_folder(location=...): the folder of the entry's id, if any
get_folder(location) ==
    IF ~L2fHas(mem.l2f_cache, location) THEN <<>>
    ELSE LET id == L2fGet(mem.l2f_cache, location).id
         IN  IF id \in Ids(mem.folders) THEN <<DictGet(mem.folders, id)>> ELSE <<>>

\* lines 698-712: the body is rewritten and the note posted under the id
\* converted from the document's guid, which the service refuses when it holds
\* a note of that id; nothing catches that error
post_note ==
    /\ run.pc = "post_note"
    /\ LET note_id == tojoplinid(Doc.guid)
           body    == convert_joplin_body(Doc.body, Doc.is_markdown, run.links)
           folder  == get_folder(Doc.location)
       IN  IF folder = <<>>
           THEN /\ run' = Abort("AttributeError")
                /\ UNCHANGED <<target, log>>
           ELSE IF note_id \in Ids(target.notes)
           THEN /\ run' = Abort("post_note")
                /\ log' = Append(log, Call("post_note", note_id, 0, FALSE))
                /\ target' = target
           ELSE LET note == [ id |-> note_id, title |-> Doc.title, body |-> body,
                              is_markdown |-> Doc.is_markdown, parent_id |-> folder[1].id ]
                IN  /\ target' = [target EXCEPT !.notes = @ \cup {note}]
                    /\ log' = Append(log, Call("post_note", note_id, 0, TRUE))
                    /\ run' = [run EXCEPT !.pc = "add_note", !.note = note]
    /\ UNCHANGED <<source, db, mem, restarts, prev>>

\* ConvertUtil.get_tags: the tags of the rows of note_tag of that note
get_tags(note_id) == { row \in db.note_tag : row.note_id = note_id }

\* lines 713-716 and ConvertUtil.add_note up to line 442: the row of the note is
\* inserted and committed and the note put in the dict.  note.tags was read from
\* note_tag, which holds nothing for a new note, so add_note_tag is not called
\* (and would insert nothing: fetchone() answers the row of the count, never None).
add_note ==
    /\ run.pc = "add_note"
    /\ LET note == run.note
           row  == [ note_id |-> note.id, title |-> note.title,
                     joplin_folder |-> note.parent_id,
                     markup_language |-> note.is_markdown, wiz_location |-> Doc.location ]
           jn   == [ id |-> note.id, title |-> note.title, parent_id |-> note.parent_id,
                     is_markdown |-> note.is_markdown, location |-> Doc.location,
                     internal_links |-> Range(run.links) ]
       IN  IF NoteCached(note.id)
           THEN /\ run' = NextDocument
                /\ UNCHANGED <<db, mem>>
           ELSE /\ db' = [db EXCEPT !.note = @ \cup {row}]
                /\ mem' = [mem EXCEPT !.notes = @ \cup {jn}]
                /\ run' = IF run.links = <<>> THEN NextDocument
                           ELSE [run EXCEPT !.pc = "add_internal_lnk", !.li = 1]
    /\ UNCHANGED <<source, target, restarts, log, prev>>

LinkRow(jil) ==
    [ note_id |-> jil.note_id, resource_id |-> jil.resource_id, title |-> jil.title,
      link_type |-> jil.link_type ]

\* ConvertUtil.add_internal_lnk, called by the loop of add_note (lines 443-444):
\* one link inserted and committed
add_internal_lnk ==
    /\ run.pc = "add_internal_lnk"
    /\ LET jil == run.links[run.li]
       IN  /\ IF \E l \in mem.internal_links : JilId(l) = JilId(jil)
              THEN UNCHANGED <<db, mem>>
              ELSE /\ db' = [db EXCEPT !.internal_link = @ \cup {LinkRow(jil)}]
                   /\ mem' = [mem EXCEPT !.internal_links = @ \cup {jil}]
           /\ run' = IF run.li < Len(run.links) THEN [run EXCEPT !.li = @ + 1]
                      ELSE NextDocument
    /\ UNCHANGED <<source, target, restarts, log, prev>>

----------------------------------------------------------------------------
\* The process ends and is started again

HowEnded == IF run.pc \in Ended THEN run.pc ELSE "killed"

Restart ==
    /\ restarts' = restarts + 1
    /\ mem' = EmptyMem
    /\ run' = RunInit
    /\ log' = <<>>
    /\ prev' = [end |-> HowEnded, target |-> target, db |-> db]
    /\ UNCHANGED <<source, db, target>>

\* the process is killed between two steps
Kill ==
    /\ run.pc \notin Ended
    /\ restarts < MaxRestarts
    /\ Restart

\* w2j is run again after a run that ended (completed, or stopped on an error)
Rerun ==
    /\ run.pc \in Ended
    /\ restarts < MaxRestarts
    /\ Restart

Next ==
    \/ convert_l2f
    \/ build_location_to_top
    \/ load_cache
    \/ sync_folders
    \/ post_folder
    \/ update_l2f
    \/ sync_tags
    \/ post_tag
    \/ add_tag
    \/ sync_note
    \/ upload_attachment
    \/ upload_image
    \/ add_resource
    \/ post_note
    \/ add_note
    \/ add_internal_lnk
    \/ Kill
    \/ Rerun

Spec == Init /\ [][Next]_vars

----------------------------------------------------------------------------
\* Adapter.sync_note_by_location

\* (a variant that stops at the entries whose parent is location)
ChildLocationsDirect(cache, location, from) ==
    LET cur_l2f == L2fGet(cache, location)
        hit(l2f) == /\ Truthy(l2f.parent_location)
                    /\ l2f.level > cur_l2f.level
                    /\ l2f.parent_location = location
        hits == SelectSeq(SubSeq(cache, from, Len(cache)), hit)
    IN  [i \in DOMAIN hits |-> hits[i].location]

\* _get_locations below the top call: the locations appended for the entries
\* whose parent is location, each followed by those of its own subtree
RECURSIVE ChildLocations(_, _, _)
ChildLocations(cache, location, from) ==
    IF from > Len(cache) THEN <<>>
    ELSE LET l2f     == cache[from]
             cur_l2f == L2fGet(cache, location)
         IN  (IF /\ Truthy(l2f.parent_location)
                 /\ l2f.level > cur_l2f.level
                 /\ l2f.parent_location = location
              THEN <<l2f.location>> \o ChildLocations(cache, l2f.location, 1)
              ELSE <<>>)
             \o ChildLocations(cache, location, from + 1)

\* lines 739-743: locations = [location], with the locations of the subtree
\* when with_children; _get_locations raises ValueError for a location that
\* l2f_cache does not hold
get_locations ==
    /\ run.pc = "locations"
    /\ LET location == source.args.location
       IN  run' = IF ~source.args.location_children
                  THEN LoopFrom([run EXCEPT !.locations = <<location>>], 1)
                  ELSE IF ~L2fHas(mem.l2f_cache, location)
                  THEN Abort("ValueError")
                  ELSE LoopFrom([run EXCEPT !.locations =
                                    <<location>> \o ChildLocations(mem.l2f_cache, location, 1)], 1)
    /\ UNCHANGED <<source, db, target, mem, restarts, log, prev>>

LocABD == <<"/", "a", "/", "b", "/", "d", "/">>
LocX   == <<"/", "x", "/">>

\* a markdown note in /a/b/d/ without tags, attachments, images or links
Doc4 ==
    [ guid |-> Guid("d", "4"), title |-> <<"n", "4">>, location |-> LocABD,
      is_markdown |-> TRUE,
      body |-> <<Text("w")>>,
      tags |-> <<>>,
      attachments |-> <<>>,
      images |-> <<>>,
      internal_links |-> <<>> ]

DocListsLocation == { s \in SeqsUpTo(DocUniverse \cup {Doc4}, MaxDocs) : NoRepeat(s) }

\* --location: a location of the store, or one that no document is in or under
LocationArgs == {LocA, LocAB, LocABD, LocC, LocX}

InitLocation ==
    /\ \E docs \in DocListsLocation, tags \in TagLists,
          location \in LocationArgs, with_children \in BOOLEAN :
          source = [ documents |-> [i \in DOMAIN docs |-> WithStoreTags(docs[i], tags)],
                     tags |-> tags, args |-> ArgsLocation(location, with_children) ]
    /\ db = EmptyDb
    /\ target = EmptyTarget
    /\ mem = EmptyMem
    /\ run = RunInit
    /\ restarts = 0
    /\ log = <<>>
    /\ prev = [end |-> "none", target |-> EmptyTarget, db |-> EmptyDb]

NextLocation ==
    \/ convert_l2f
    \/ build_location_to_top
    \/ load_cache
    \/ sync_folders
    \/ post_folder
    \/ update_l2f
    \/ sync_tags
    \/ post_tag
    \/ add_tag
    \/ get_locations
    \/ sync_note
    \/ upload_attachment
    \/ upload_image
    \/ add_resource
    \/ post_note
    \/ add_note
    \/ add_internal_lnk

SpecLocation == InitLocation /\ [][NextLocation]_vars

----------------------------------------------------------------------------
\* convert_joplin_body on its own: a body, its format and its links are drawn
\* from bounded sets and the function is applied once.

MaxBodyLen == 3
MaxLinks == 3

NoteId == tojoplinid(Guid("d", "9"))

\* an image that was uploaded: outertext is the outerhtml of the image
LinkImage ==
    JoplinInternalLink(NoteId, tojoplinid(Guid("e", "1")), <<"p">>, "image", ImgHtml1)

\* an attachment link found in the body by the parser
LinkAttachmentInline ==
    JoplinInternalLink(NoteId, tojoplinid(Guid("a", "1")), <<"f">>, "open_attachment", AttHtml)

\* an uploaded attachment that the body does not mention: outertext keeps its default ""
LinkAttachmentEnd ==
    JoplinInternalLink(NoteId, tojoplinid(Guid("a", "2")), <<"g">>, "open_attachment", <<>>)

\* a link to another document found in the body by the parser
LinkDocument ==
    JoplinInternalLink(NoteId, tojoplinid(Guid("d", "1")), <<"n">>, "open_document", DocHtml)

LinkUniverse == { LinkImage, LinkAttachmentInline, LinkAttachmentEnd, LinkDocument }

\* joplin_internal_links is a dict keyed by JoplinInternalLink.id: no id twice
LinkLists ==
    { s \in SeqsUpTo(LinkUniverse, MaxLinks) :
        \A i, j \in DOMAIN s : i # j => JilId(s[i]) # JilId(s[j]) }

BodyTokens == { Text("x"), Lit(ImgHtml1), Lit(AttHtml), Lit(DocHtml) }

Bodies == SeqsUpTo(BodyTokens, MaxBodyLen)

InitBody ==
    /\ \E body \in Bodies, is_markdown \in BOOLEAN, links \in LinkLists :
          source = [ body |-> body, is_markdown |-> is_markdown, internal_links |-> links ]
    /\ db = EmptyDb
    /\ target = EmptyTarget
    /\ mem = EmptyMem
    /\ run = [pc |-> "body", body |-> <<>>]
    /\ restarts = 0
    /\ log = <<>>
    /\ prev = [end |-> "none", target |-> EmptyTarget, db |-> EmptyDb]

\* body = convert_joplin_body(document.body, document.is_markdown,
\*                            joplin_internal_links.values())
convert_body ==
    /\ run.pc = "body"
    /\ run' = [ pc |-> "converted",
                body |-> convert_joplin_body(source.body, source.is_markdown,
                                             source.internal_links) ]
    /\ UNCHANGED <<source, db, target, mem, restarts, log, prev>>

NextBody == convert_body

SpecBody == InitBody /\ [][NextBody]_vars

----------------------------------------------------------------------------
\* w2j.parser.tojoplinid and w2j.parser.towizid on their own: a guid of the
\* source store is converted and converted back, and so is an id of the target

MaxHex == 3

HexDigits == <<"0", "f", "a", "9", "5", "c">>

HexUsed == { HexDigits[i] : i \in 1..MaxHex }

\* guids in the 8-4-4-4-12 form, every group made of one hex digit
CanonicalGuids ==
    { Rep(a, 8) \o <<"-">> \o Rep(b, 4) \o <<"-">> \o Rep(c, 4) \o <<"-">>
        \o Rep(d, 4) \o <<"-">> \o Rep(e, 12) : a, b, c, d, e \in HexUsed }

\* ids of 32 hex digits
JoplinIds ==
    { Rep(a, 8) \o Rep(b, 4) \o Rep(c, 4) \o Rep(d, 4) \o Rep(e, 12) :
        a, b, c, d, e \in HexUsed }

InitId ==
    /\ \/ \E guid \in CanonicalGuids :
             /\ source = [kind |-> "guid", value |-> guid]
             /\ run = [pc |-> "tojoplinid", value |-> guid, calls |-> 0]
       \/ \E id \in JoplinIds :
             /\ source = [kind |-> "id", value |-> id]
             /\ run = [pc |-> "towizid", value |-> id, calls |-> 0]
    /\ db = EmptyDb
    /\ target = EmptyTarget
    /\ mem = EmptyMem
    /\ restarts = 0
    /\ log = <<>>
    /\ prev = [end |-> "none", target |-> EmptyTarget, db |-> EmptyDb]

\* the conversion that follows: the other one, once
AfterCall(other) == IF run.calls = 0 THEN other ELSE "end"

call_tojoplinid ==
    /\ run.pc = "tojoplinid"
    /\ run' = [pc |-> AfterCall("towizid"), value |-> tojoplinid(run.value),
               calls |-> run.calls + 1]
    /\ UNCHANGED <<source, db, target, mem, restarts, log, prev>>

call_towizid ==
    /\ run.pc = "towizid"
    /\ run' = [pc |-> AfterCall("tojoplinid"), value |-> towizid(run.value),
               calls |-> run.calls + 1]
    /\ UNCHANGED <<source, db, target, mem, restarts, log, prev>>

NextId ==
    \/ call_tojoplinid
    \/ call_towizid

SpecId == InitId /\ [][NextId]_vars

----------------------------------------------------------------------------
\* The methods of ConvertUtil called one at a time on a cache that holds some
\* records already: the cache as init_cache has loaded it, and one call

FolderId(n) == <<"j">> \o NatStr(n)

\* an entry of the chain as a row of l2f gives it
Entry(location, id, parent_id) ==
    [Location2Folder(location) EXCEPT !.id = id, !.parent_id = parent_id]

\* the chains /a/ and /a/, /a/b/: each entry with or without its ids
StoredChains ==
    { <<Entry(LocA, id, None)>> : id \in {None, FolderId(1)} }
        \cup { <<Entry(LocA, FolderId(1), None), Entry(LocAB, id, parent_id)>> :
                 id \in {None, FolderId(2)}, parent_id \in {None, FolderId(1)} }

\* the tables that hold the chain and nothing else
DbWithChain(chain) == [EmptyDb EXCEPT !.l2f = chain]

\* the dicts of ConvertUtil after init_cache has read the tables d
MemOfDb(d) ==
    [ EmptyMem EXCEPT
        !.l2f_cache = d.l2f, !.folders = load_folders(d.l2f), !.tags = d.tag,
        !.resources = d.resource,
        !.internal_links = { LinkOfRow(l) : l \in d.internal_link },
        !.notes = { [ id |-> row.note_id, title |-> row.title,
                      parent_id |-> row.joplin_folder,
                      is_markdown |-> row.markup_language, location |-> row.wiz_location,
                      internal_links |->
                          { LinkOfRow(l) : l \in { x \in d.internal_link :
                                                     x.note_id = row.note_id } } ] :
                    row \in d.note } ]

\* update_l2f(location, id, parent_id) for a location of the chain
UpdateCalls(chain) ==
    [ op : {"update_l2f"},
      location : { chain[i].location : i \in DOMAIN chain },
      id : {FolderId(2), FolderId(5)},
      parent_id : {None, FolderId(1), FolderId(6)} ]

\* the records the calls are made with
CTag1  == JoplinTag(tojoplinid(Tag1.guid), Tag1.name)
CTag2  == JoplinTag(tojoplinid(Tag2.guid), Tag2.name)
CTag1b == JoplinTag(tojoplinid(Tag1b.guid), Tag1b.name)

Res1 == JoplinResource(FolderId(7), <<"p">>, <<"p">>)
Res2 == JoplinResource(FolderId(8), <<"q">>, <<"q">>)

NoteIdA == tojoplinid(Guid("d", "1"))
NoteIdB == tojoplinid(Guid("d", "2"))

Jil1 == JoplinInternalLink(NoteIdA, Res1.id, <<"p">>, "image", ImgHtml1)
Jil2 == JoplinInternalLink(NoteIdA, Res2.id, <<"q">>, "image", ImgHtmlQ)

\* a JoplinNote as _sync_note hands it to add_note
CNote(id, tags, links) ==
    [ id |-> id, title |-> <<"n">>, parent_id |-> FolderId(1), is_markdown |-> FALSE,
      location |-> LocA, tags |-> tags, internal_links |-> links ]

NoteRow(note) ==
    [ note_id |-> note.id, title |-> note.title, joplin_folder |-> note.parent_id,
      markup_language |-> note.is_markdown, wiz_location |-> note.location ]

NoteTagRow(note_id, tag) == [note_id |-> note_id, tag_id |-> tag.id, title |-> tag.title]

\* the tables before the call, and the call
CacheCalls ==
    { [db |-> DbWithChain(chain), call |-> call] :
        chain \in StoredChains, call \in UNION { UpdateCalls(c) : c \in StoredChains } }
    \cup { [db |-> DbWithChain(chain), call |-> [op |-> "build_location_to_top", location |-> l]] :
             chain \in StoredChains \cup {<<>>}, l \in {LocA, LocAB, LocC} }
    \cup { [db |-> [EmptyDb EXCEPT !.tag = tags], call |-> [op |-> "add_tag", tag |-> t]] :
             tags \in SUBSET {CTag1, CTag2}, t \in {CTag1, CTag2, CTag1b} }
    \cup { [db |-> [EmptyDb EXCEPT !.resource = rs], call |-> [op |-> "add_resource", jr |-> r]] :
             rs \in SUBSET {Res1, Res2}, r \in {Res1, Res2} }
    \cup { [db |-> [EmptyDb EXCEPT !.internal_link = { LinkRow(x) : x \in ls }],
            call |-> [op |-> "add_internal_lnk", jil |-> l]] :
             ls \in SUBSET {Jil1, Jil2}, l \in {Jil1, Jil2} }
    \cup { [db |-> [EmptyDb EXCEPT !.tag = {CTag1, CTag2},
                                   !.note = {NoteRow(CNote(NoteIdA, {}, <<>>))},
                                   !.note_tag = { NoteTagRow(NoteIdA, x) : x \in ts }],
            call |-> [op |-> "add_note_tag", note |-> CNote(NoteIdA, {}, <<>>), tag |-> t]] :
             ts \in SUBSET {CTag1, CTag2}, t \in {CTag1, CTag2} }
    \cup { [db |-> [EmptyDb EXCEPT !.l2f = <<Entry(LocA, FolderId(1), None)>>,
                                   !.tag = {CTag1},
                                   !.note = { NoteRow(CNote(x, {}, <<>>)) : x \in ids }],
            call |-> [op |-> "add_note", note |-> CNote(id, tags, links)]] :
             ids \in SUBSET {NoteIdA, NoteIdB}, id \in {NoteIdA, NoteIdB},
             tags \in {{}, {CTag1}}, links \in {<<>>, <<Jil1>>, <<Jil1, Jil2>>} }

InitCache ==
    /\ \E c \in CacheCalls :
          /\ db = c.db
          /\ run = [pc |-> "call", call |-> c.call]
          /\ c.call.op = "update_l2f" => L2fHas(c.db.l2f, c.call.location)
    /\ mem = MemOfDb(db)
    /\ source = [documents |-> <<>>, tags |-> <<>>, args |-> ArgsAll]
    /\ target = EmptyTarget
    /\ restarts = 0
    /\ log = <<>>
    /\ prev = [end |-> "none", target |-> EmptyTarget, db |-> db]

Calling(op) == run.pc = "call" /\ run.call.op = op

Returned == [run EXCEPT !.pc = "returned"]

\* ConvertUtil.update_l2f, lines 450-458
call_update_l2f ==
    /\ Calling("update_l2f")
    /\ LET cache == UpdateEntry(mem.l2f_cache, run.call.location, run.call.id,
                                run.call.parent_id)
       IN  /\ mem' = [mem EXCEPT !.l2f_cache = cache]
           /\ db' = [db EXCEPT !.l2f = UpdateRow(@, L2fGet(cache, run.call.location))]
    /\ run' = Returned
    /\ UNCHANGED <<source, target, restarts, log, prev>>

\* build_location_to_top with its recursion, lines 224-235: the chain after the
\* call, the entry of the location appended before those of its ancestors
RECURSIVE BuildToTop(_, _)
BuildToTop(cache, location) ==
    LET present  == L2fHas(cache, location)
        l2f_inst == IF present THEN L2fGet(cache, location) ELSE Location2Folder(location)
        with     == IF present THEN cache ELSE Append(cache, l2f_inst)
    IN  IF HasParentToBuild(present, l2f_inst)
        THEN BuildToTop(with, l2f_inst.parent_location)
        ELSE with

call_build_location_to_top ==
    /\ Calling("build_location_to_top")
    /\ LET cache == BuildToTop(mem.l2f_cache, run.call.location)
       IN  /\ mem' = [mem EXCEPT !.l2f_cache = cache,
                                 !.folder_max_level = MaxLevel(cache)]
           /\ db' = [db EXCEPT !.l2f = cache]
    /\ run' = Returned
    /\ UNCHANGED <<source, target, restarts, log, prev>>

\* ConvertUtil.add_tag, lines 369-379
call_add_tag ==
    /\ Calling("add_tag")
    /\ LET tag == run.call.tag
       IN  IF tag.id \in Ids(mem.tags)
           THEN /\ run' = Returned
                /\ UNCHANGED <<db, mem>>
           ELSE IF \E row \in db.tag : row.id = tag.id \/ row.title = tag.title
           THEN /\ run' = [run EXCEPT !.pc = "raised"]
                /\ UNCHANGED <<db, mem>>
           ELSE /\ db' = [db EXCEPT !.tag = @ \cup {tag}]
                /\ mem' = [mem EXCEPT !.tags = @ \cup {tag}]
                /\ run' = Returned
    /\ UNCHANGED <<source, target, restarts, log, prev>>

\* ConvertUtil.add_resource, lines 381-393
call_add_resource ==
    /\ Calling("add_resource")
    /\ LET jr == run.call.jr
       IN  IF jr.id \in Ids(mem.resources)
           THEN UNCHANGED <<db, mem>>
           ELSE /\ db' = [db EXCEPT !.resource = @ \cup {jr}]
                /\ mem' = [mem EXCEPT !.resources = @ \cup {jr}]
    /\ run' = Returned
    /\ UNCHANGED <<source, target, restarts, log, prev>>

\* ConvertUtil.add_internal_lnk, lines 395-404, on the tables d and the dicts m
WithLink(dm, jil) ==
    IF \E l \in dm.mem.internal_links : JilId(l) = JilId(jil) THEN dm
    ELSE [ db  |-> [dm.db EXCEPT !.internal_link = @ \cup {LinkRow(jil)}],
           mem |-> [dm.mem EXCEPT !.internal_links = @ \cup {jil}] ]

RECURSIVE WithLinks(_, _)
WithLinks(dm, jils) ==
    IF jils = <<>> THEN dm ELSE WithLinks(WithLink(dm, Head(jils)), Tail(jils))

call_add_internal_lnk ==
    /\ Calling("add_internal_lnk")
    /\ LET dm == WithLink([db |-> db, mem |-> mem], run.call.jil)
       IN  db' = dm.db /\ mem' = dm.mem
    /\ run' = Returned
    /\ UNCHANGED <<source, target, restarts, log, prev>>

\* ConvertUtil.add_note_tag, lines 408-414: fetchone() on SELECT count(*)
\* answers a row of one number, (0,) when there is no such link; a tuple of one
\* element is true, so the method returns before its INSERT
CountRow(note_id, tag_id) ==
    <<Cardinality({ row \in db.note_tag : row.note_id = note_id /\ row.tag_id = tag_id })>>

WithNoteTag(dm, note, tag) ==
    IF CountRow(note.id, tag.id) # <<>> THEN dm
    ELSE [dm EXCEPT !.db.note_tag = @ \cup {NoteTagRow(note.id, tag)}]

call_add_note_tag ==
    /\ Calling("add_note_tag")
    /\ LET dm == WithNoteTag([db |-> db, mem |-> mem], run.call.note, run.call.tag)
       IN  db' = dm.db /\ mem' = dm.mem
    /\ run' = Returned
    /\ UNCHANGED <<source, target, restarts, log, prev>>

\* ConvertUtil.add_note, lines 419-444: the row of the note, then add_note_tag
\* for its tags and add_internal_lnk for its links
call_add_note ==
    /\ Calling("add_note")
    /\ LET note == run.call.note
           jn   == [ id |-> note.id, title |-> note.title, parent_id |-> note.parent_id,
                     is_markdown |-> note.is_markdown, location |-> note.location,
                     internal_links |-> Range(note.internal_links) ]
           dm0  == [ db  |-> [db EXCEPT !.note = @ \cup {NoteRow(note)}],
                     mem |-> [mem EXCEPT !.notes = @ \cup {jn}] ]
           tag_list == IF note.tags = {} THEN <<>> ELSE <<CHOOSE t \in note.tags : TRUE>>
           dm1  == IF tag_list = <<>> THEN dm0 ELSE WithNoteTag(dm0, note, tag_list[1])
           dm2  == WithLinks(dm1, note.internal_links)
       IN  IF note.id \in Ids(mem.notes)
           THEN UNCHANGED <<db, mem>>
           ELSE db' = dm2.db /\ mem' = dm2.mem
    /\ run' = Returned
    /\ UNCHANGED <<source, target, restarts, log, prev>>

NextCache ==
    \/ call_update_l2f
    \/ call_build_location_to_top
    \/ call_add_tag
    \/ call_add_resource
    \/ call_add_internal_lnk
    \/ call_add_note_tag
    \/ call_add_note

SpecCache == InitCache /\ [][NextCache]_vars

----------------------------------------------------------------------------
\* Location2Folder(location) on its own: an entry is made from a path

MaxSegments == 3

SegmentNames == { <<"a">>, <<"b">>, <<"c">>, <<"a", "b">> }

\* the path of the segments: each between two "/"
RECURSIVE Wrapped(_)
Wrapped(segments) ==
    IF segments = <<>> THEN <<"/">>
    ELSE <<"/">> \o Head(segments) \o Wrapped(Tail(segments))

InitPath ==
    /\ \E segments \in SeqsUpTo(SegmentNames, MaxSegments) :
          source = [segments |-> segments, location |-> Wrapped(segments)]
    /\ run = [pc |-> "call", l2f |-> None]
    /\ db = EmptyDb
    /\ target = EmptyTarget
    /\ mem = EmptyMem
    /\ restarts = 0
    /\ log = <<>>
    /\ prev = [end |-> "none", target |-> EmptyTarget, db |-> EmptyDb]

new_Location2Folder ==
    /\ run.pc = "call"
    /\ run' = [pc |-> "built", l2f |-> Location2Folder(source.location)]
    /\ UNCHANGED <<source, db, target, mem, restarts, log, prev>>

NextPath == new_Location2Folder

SpecPath == InitPath /\ [][NextPath]_vars

----------------------------------------------------------------------------
\* _sync_note on attachments that carry the attribute _upload_wiz_attachment
\* reads (file_path, here whether the file is there), as the adapter expects of
\* the WizAttachment of the platform it runs on: the upload can succeed.

WithFilePath(attachment, exists) ==
    [ k \in DOMAIN attachment \cup {"file_path"} |->
        IF k = "file_path" THEN exists ELSE attachment[k] ]

AttHtml3 == <<"<", "a", "3", ">">>

AttF1   == WithFilePath(Att1, TRUE)
AttF2   == WithFilePath(WizAttachment(Guid("a", "2"), <<"g">>, TRUE), TRUE)
AttGone == WithFilePath(WizAttachment(Guid("a", "3"), <<"h">>, FALSE), FALSE)

\* a note in /c/ with an attachment that its body links to
Doc5 ==
    [ guid |-> Guid("d", "5"), title |-> <<"n", "5">>, location |-> LocC,
      is_markdown |-> FALSE,
      body |-> <<Lit(AttHtml), Text("y")>>,
      tags |-> <<Tag1>>,
      attachments |-> <<AttF1>>,
      images |-> <<>>,
      internal_links |-> <<WizInternalLink(AttHtml, AttF1.guid, <<"f">>, "open_attachment")>> ]

\* a markdown note in /a/ with an attachment that its body does not mention
Doc6 ==
    [ guid |-> Guid("d", "6"), title |-> <<"n", "6">>, location |-> LocA,
      is_markdown |-> TRUE,
      body |-> <<Text("v")>>,
      tags |-> <<>>,
      attachments |-> <<AttF2>>,
      images |-> <<>>,
      internal_links |-> <<>> ]

\* a note in /a/b/ with the attachment of Doc5, which its body does not
\* mention, and an attachment that its body links to and whose file is missing
Doc7 ==
    [ guid |-> Guid("d", "7"), title |-> <<"n", "7">>, location |-> LocAB,
      is_markdown |-> FALSE,
      body |-> <<Lit(AttHtml3)>>,
      tags |-> <<>>,
      attachments |-> <<AttF1, AttGone>>,
      images |-> <<>>,
      internal_links |-> <<WizInternalLink(AttHtml3, AttGone.guid, <<"h">>, "open_attachment")>> ]

DocListsMerge == { s \in SeqsUpTo({Doc1, Doc5, Doc6, Doc7}, MaxDocs) : NoRepeat(s) }

InitMerge ==
    /\ \E docs \in DocListsMerge, tags \in TagLists :
          source = [ documents |-> [i \in DOMAIN docs |-> WithStoreTags(docs[i], tags)],
                     tags |-> tags, args |-> ArgsAll ]
    /\ db = EmptyDb
    /\ target = EmptyTarget
    /\ mem = EmptyMem
    /\ run = RunInit
    /\ restarts = 0
    /\ log = <<>>
    /\ prev = [end |-> "none", target |-> EmptyTarget, db |-> EmptyDb]

NextMerge ==
    \/ convert_l2f
    \/ build_location_to_top
    \/ load_cache
    \/ sync_folders
    \/ post_folder
    \/ update_l2f
    \/ sync_tags
    \/ post_tag
    \/ add_tag
    \/ sync_note
    \/ upload_attachment
    \/ upload_image
    \/ add_resource
    \/ post_note
    \/ add_note
    \/ add_internal_lnk

SpecMerge == InitMerge /\ [][NextMerge]_vars

----------------------------------------------------------------------------
\* Properties of the synchronisation

CreateOps == {"post_folder", "post_tag", "create_resource", "post_note"}

CallsOf(ops) == SelectSeq(log, LAMBDA c : c.op \in ops)

NoteRecorded(document) == \E row \in db.note : row.note_id = tojoplinid(document.guid)

AllNotesRecorded == \A i \in DOMAIN source.documents : NoteRecorded(source.documents[i])

\* C1: a run that follows a completed run issues no create-folder, create-tag,
\* create-resource or create-note call and leaves the target as the completed
\* run left it.
C1_SecondRunIdempotent ==
    prev.end = "done" => (CallsOf(CreateOps) = <<>> /\ target = prev.target)

\* the second run has completed, the first one having created notes
C1_Witness ==
    /\ prev.end = "done"
    /\ restarts = 1
    /\ run.pc = "done"
    /\ target.notes # {}
    /\ target.folders # {}

\* C2: the target never holds two folders created for the same location of the
\* folder chain, however the runs were ended and run again.
C2_NoDuplicateFolder ==
    \A f, g \in target.folders : f.wiz_location = g.wiz_location => f = g

HasId(entries, location) ==
    \E i \in DOMAIN entries : entries[i].location = location /\ entries[i].id # None

ParentBeforeChild(entries) ==
    \A i \in DOMAIN entries :
        entries[i].id # None =>
            \/ entries[i].parent_location = None
            \/ HasId(entries, entries[i].parent_location)

\* C3: in memory and in the l2f table, an entry whose id is set is a root entry
\* or has a parent entry whose id is set; and a folder made for an entry with a
\* parent lies in a folder made for that parent.
C3_ParentBeforeChild ==
    /\ ParentBeforeChild(mem.l2f_cache)
    /\ ParentBeforeChild(db.l2f)
    /\ \A f \in target.folders :
          Location2Folder(f.wiz_location).parent_location # None =>
              \E g \in target.folders :
                  /\ g.id = f.parent_id
                  /\ g.wiz_location = Location2Folder(f.wiz_location).parent_location

\* a child entry that a killed process left without an id has got its id
C3_Witness ==
    /\ restarts > 0
    /\ \E i \in DOMAIN db.l2f, k \in DOMAIN prev.db.l2f :
          /\ db.l2f[i].id # None
          /\ db.l2f[i].parent_location # None
          /\ prev.db.l2f[k].location = db.l2f[i].location
          /\ prev.db.l2f[k].id = None

\* the cache and the target hold the same folders, tags, resources and notes,
\* and a link of the cache to a resource names a resource of the target
CacheAgreesWithTarget ==
    /\ \A f \in target.folders : \E i \in DOMAIN db.l2f : db.l2f[i].id = f.id
    /\ \A t \in target.tags : t.id \in Ids(db.tag)
    /\ \A r \in Range(target.resources) : r.id \in Ids(db.resource)
    /\ \A n \in target.notes : \E row \in db.note : row.note_id = n.id
    /\ \A i \in DOMAIN db.l2f : db.l2f[i].id # None => db.l2f[i].id \in Ids(target.folders)
    /\ Ids(db.tag) \subseteq Ids(target.tags)
    /\ Ids(db.resource) \subseteq Ids(Range(target.resources))
    /\ \A row \in db.note : row.note_id \in Ids(target.notes)
    /\ \A row \in db.internal_link :
          /\ row.note_id \in Ids(target.notes)
          /\ row.link_type # "open_document" => row.resource_id \in Ids(Range(target.resources))

\* C4: in a run started with an empty cache against an empty target, when an
\* operation that changes the cache has returned (a commit was made), the
\* persisted cache agrees with the target: the run may be terminated there.
C4_CacheAgreesAfterCommit ==
    [][(restarts = 0 /\ db' # db) => CacheAgreesWithTarget']_vars

\* the tags of the store have different names
TagNamesDiffer ==
    \A i, j \in DOMAIN source.tags :
        source.tags[i].name = source.tags[j].name => i = j

\* C5: a run started after a killed run ends completed, with a note recorded
\* for every document (it does not stop on an error).  Stated for the stores
\* whose tags have different names, for which a run that is never killed
\* completes.
C5_RerunCompletes ==
    (TagNamesDiffer /\ prev.end = "killed" /\ run.pc \in Ended)
        => (run.pc = "done" /\ AllNotesRecorded)

FolderCalls == CallsOf({"post_folder"})

\* the entries without an id when sync_folders was called: those of the cache
\* that had no id in the table when the process started
WaitingAtCall ==
    { mem.l2f_cache[i].location : i \in DOMAIN mem.l2f_cache } \
        { prev.db.l2f[i].location : i \in { k \in DOMAIN prev.db.l2f : prev.db.l2f[k].id # None } }

SyncFoldersOver ==
    \/ run.pc \in { "sync_tags", "tag", "tag_add", "note", "attachment", "image",
                     "add_resource", "post_note", "add_note", "add_internal_lnk", "done" }
    \/ run.pc = "aborted" /\ run.error # "KeyError"

\* C6: the create-folder calls of a run come in non-decreasing order of level,
\* and once sync_folders is over there was one call, and only one, for each
\* entry that had no id when it was called.
C6_LevelOrderedCreation ==
    /\ \A i, j \in DOMAIN FolderCalls : i < j => FolderCalls[i].level <= FolderCalls[j].level
    /\ \A i, j \in DOMAIN FolderCalls : i # j => FolderCalls[i].key # FolderCalls[j].key
    /\ { FolderCalls[i].key : i \in DOMAIN FolderCalls } \subseteq WaitingAtCall
    /\ SyncFoldersOver => { FolderCalls[i].key : i \in DOMAIN FolderCalls } = WaitingAtCall

\* sync_folders is over after calls for entries of two levels
C6_Witness ==
    /\ SyncFoldersOver
    /\ \E i, j \in DOMAIN FolderCalls : FolderCalls[i].level < FolderCalls[j].level

\* C7: _sync_note for a document whose note the cache holds makes no call to
\* the service and changes neither the cache nor the target; the run goes on
\* with the next document.
C7_NoteSkip ==
    [][ ( /\ run.pc = "note"
          /\ tojoplinid(Doc.guid) \in Ids(mem.notes)
          /\ restarts' = restarts )
        => ( /\ UNCHANGED <<db, target, mem, log>>
             /\ run'.pc \in {"note", "done"}
             /\ run'.pc = "note" => run'.di = run.di + 1 ) ]_vars

\* a process started again has gone past a document whose note was recorded
C7_Witness ==
    /\ restarts > 0
    /\ log = <<>>
    /\ \E row \in prev.db.note : row.note_id = tojoplinid(source.documents[1].guid)
    /\ \/ run.pc = "note" /\ run.di = 2
       \/ run.pc = "done"

----------------------------------------------------------------------------
\* Properties of convert_joplin_body

Converted == run.pc = "converted"

Forms == {"md_link", "md_image", "html_a", "html_img"}

Headings == {"md_heading", "html_heading"}

\* where the trailing block of a body starts (past its end when it has none)
TrailStart(body) ==
    LET h == { i \in DOMAIN body : body[i].t \in Headings }
    IN  IF h = {} THEN Len(body) + 1 ELSE CHOOSE i \in h : \A j \in h : i <= j

InlineForms(body) == { i \in DOMAIN body : i < TrailStart(body) /\ body[i].t \in Forms }

TrailForms(body) == { i \in DOMAIN body : i > TrailStart(body) /\ body[i].t \in Forms }

Links == source.internal_links

\* the places of the source body that hold the literal text of a reference
LiteralAt == { i \in DOMAIN source.body : source.body[i].t = "lit" }

\* every literal reference of the body has a link carrying its text
AllResolved ==
    \A i \in LiteralAt : \E k \in DOMAIN Links : Links[k].outertext = source.body[i].a

AttachmentLinks == { k \in DOMAIN Links : Links[k].link_type = "open_attachment" }

\* the links whose literal text is in the body
InlineLinks_ == { k \in DOMAIN Links :
                    \E i \in LiteralAt : source.body[i].a = Links[k].outertext }

C9_TrailingAppend ==
    Converted =>
        /\ \A k \in AttachmentLinks :
              ~Truthy(Links[k].outertext) =>
                 /\ \A i \in InlineForms(run.body) : run.body[i].a # Links[k].resource_id
                 /\ Cardinality({ i \in TrailForms(run.body) :
                                    run.body[i].a = Links[k].resource_id }) = 1
        /\ Cardinality({ i \in DOMAIN run.body : run.body[i].t \in Headings })
              = (IF AttachmentLinks = {} THEN 0 ELSE 1)
        /\ AttachmentLinks # {} => TrailStart(run.body) = Len(source.body) + 1
        /\ \A i \in DOMAIN run.body :
              i > TrailStart(run.body) => run.body[i].t \in Forms \cup {"md_item", "html_li"}

\* the only link is an attachment without literal text: a block of one entry
C9_Witness ==
    /\ Converted
    /\ Links = <<LinkAttachmentEnd>>
    /\ source.body # <<>>
    /\ Cardinality(TrailForms(run.body)) = 1

----------------------------------------------------------------------------
\* Properties of _sync_note: missing files

\* the calls made for the document _sync_note is working on: those that
\* follow the last post_note
CallsForDocument ==
    LET at   == { i \in DOMAIN log : log[i].op = "post_note" }
        last == IF at = {} THEN 0 ELSE CHOOSE i \in at : \A j \in at : j <= i
    IN  SubSeq(log, last + 1, Len(log))

EarlierCalls == SubSeq(log, 1, Len(log) - Len(CallsForDocument))

Creates(calls) == { i \in DOMAIN calls : calls[i].op = "create_resource" }

OnePresentOneMissing(d) ==
    /\ Cardinality({ i \in DOMAIN d.images : ~ImageMissing(d.images[i]) }) = 1
    /\ Cardinality({ i \in DOMAIN d.images : ImageMissing(d.images[i]) }) = 1

PresentImage(d) == d.images[CHOOSE i \in DOMAIN d.images : ~ImageMissing(d.images[i])]

MissingImage(d) == d.images[CHOOSE i \in DOMAIN d.images : ImageMissing(d.images[i])]

TargetNote(d) == CHOOSE n \in target.notes : n.id = tojoplinid(d.guid)

CachedNote(d) == DictGet(mem.notes, tojoplinid(d.guid))

\* the uploads of the document are over and its note is about to be posted
UploadsOver == run.pc = "post_note"

\* the note of d is in the target and in the cache, its links and its body hold
\* a reference for the image that is there and none for the missing one
MigratedWithoutMissing(d) ==
    /\ NoteRecorded(d)
    /\ tojoplinid(d.guid) \in Ids(target.notes)
    /\ tojoplinid(d.guid) \in Ids(mem.notes)
    /\ \A l \in CachedNote(d).internal_links : l.outertext # MissingImage(d).outerhtml
    /\ \E l \in CachedNote(d).internal_links :
          /\ l.link_type = "image"
          /\ l.outertext = PresentImage(d).outerhtml
          /\ \E i \in DOMAIN TargetNote(d).body :
                TargetNote(d).body[i].t \in {"md_image", "html_img"}
                   /\ TargetNote(d).body[i].a = l.resource_id
    /\ \A i \in DOMAIN TargetNote(d).body :
          TargetNote(d).body[i].t \in {"md_link", "md_image", "html_a", "html_img"} =>
              \E l \in CachedNote(d).internal_links :
                  l.resource_id = TargetNote(d).body[i].a

\* C11: in a first run, for a document with one image that is there and one
\* that is missing, exactly one create-resource call is made, the note is
\* created and recorded with no reference to the missing image in its links or
\* its body (neither a target-addressed form nor the literal text of the
\* image), and no error of _sync_note ends the run.
C11_MissingResourceSkip ==
    restarts = 0 =>
        /\ (run.pc = "aborted") => run.error \notin {"AttributeError", "post_note"}
        /\ (UploadsOver /\ OnePresentOneMissing(Doc)) =>
              Cardinality(Creates(CallsForDocument)) = 1
        /\ run.pc = "done" =>
              \A i \in DOMAIN source.documents :
                  OnePresentOneMissing(source.documents[i]) =>
                      /\ MigratedWithoutMissing(source.documents[i])
                      /\ \A k \in DOMAIN TargetNote(source.documents[i]).body :
                            TargetNote(source.documents[i]).body[k]
                               # Lit(MissingImage(source.documents[i]).outerhtml)

----------------------------------------------------------------------------
\* Properties of sync_note_by_location

\* loc is the location top or a path below it, at any depth
IsUnder(loc, top) == Len(loc) >= Len(top) /\ SubSeq(loc, 1, Len(top)) = top

\* the documents sync_note_by_location is asked for
InScope(d) ==
    IF source.args.location_children
    THEN IsUnder(d.location, source.args.location)
    ELSE d.location = source.args.location

NotePhase == {"note", "attachment", "image", "add_resource", "post_note", "add_note",
              "add_internal_lnk"}

\* C12: once the locations are listed, the documents taken for _sync_note are
\* exactly those at the location asked for, or at it and below it at any depth
\* with with_children; _sync_note works on no other document, and a completed
\* run has recorded a note for exactly those documents.
C12_ScopeSelection ==
    /\ run.locations # <<>> =>
          \A i \in DOMAIN source.documents :
              Selected(run, i) <=> InScope(source.documents[i])
    /\ run.pc \in NotePhase => InScope(Doc)
    /\ run.pc = "done" =>
          \A i \in DOMAIN source.documents :
              NoteRecorded(source.documents[i]) <=> InScope(source.documents[i])

\* /a/ was asked for with its children: the note of a document two levels
\* below is recorded and a document of /c/ was left alone
C12_Witness ==
    /\ run.pc = "done"
    /\ source.args.location = LocA
    /\ source.args.location_children
    /\ \E i, j \in DOMAIN source.documents :
          /\ source.documents[i].location = LocABD
          /\ NoteRecorded(source.documents[i])
          /\ source.documents[j].location = LocC
          /\ ~NoteRecorded(source.documents[j])

\* the location asked for has no entry in the resolved chain of folders
UnknownLocation == ~source.args.all /\ ~L2fHas(mem.l2f_cache, source.args.location)

\* C13: a run asked for a location without an entry in the resolved chain of
\* folders ends on an error, with or without children, and posts no note.
C13_UnknownLocationFatal ==
    (UnknownLocation /\ run.pc \in NotePhase \cup Ended) =>
        /\ run.pc = "aborted"
        /\ CallsOf({"post_note"}) = <<>>

----------------------------------------------------------------------------
\* Properties of _sync_note: a refused create-note, a failed upload

\* the create-note call for document k was refused by the target in this run
NoteRefused(k) ==
    \E i \in DOMAIN log :
        /\ log[i].op = "post_note"
        /\ ~log[i].ok
        /\ log[i].key = tojoplinid(source.documents[k].guid)

\* C15: when the create-note call of a document that is not the last one was
\* refused, the run has, once it has ended, recorded a note for every later
\* document.
C15_BadNoteDoesNotBlock ==
    \A k \in DOMAIN source.documents :
        (NoteRefused(k) /\ k < Len(source.documents) /\ run.pc \in Ended) =>
            \A j \in (k + 1)..Len(source.documents) : NoteRecorded(source.documents[j])

\* C16: when the target refuses the create-note call of a document because it
\* holds a note of that id, the run does not stop on the error, and once it
\* has ended the cache holds the note of the document.
C16_NoteViolationReconciled ==
    \A k \in DOMAIN source.documents :
        NoteRefused(k) =>
            /\ run.pc # "aborted"
            /\ run.pc = "done" => NoteRecorded(source.documents[k])

\* no resource of the target was made from the file of attachment a
NotUploaded(a) ==
    \A i \in DOMAIN target.resources : target.resources[i].title # a.file_name

\* the note of document d, its links and its body hold no reference to a
Dropped(d, a) ==
    /\ \A row \in db.internal_link :
          row.note_id = tojoplinid(d.guid) => row.resource_id # tojoplinid(a.guid)
    /\ \A i \in DOMAIN TargetNote(d).body :
          TargetNote(d).body[i].t \in Forms => TargetNote(d).body[i].a # tojoplinid(a.guid)

\* C18: a first run that has completed has created and recorded the note of
\* every document that has an attachment whose upload failed, and neither the
\* links recorded for the note nor its body refer to that attachment, whether
\* or not the body of the document links to it.
C18_FailedUploadDropped ==
    (restarts = 0 /\ run.pc = "done") =>
        \A k \in DOMAIN source.documents :
            \A j \in DOMAIN source.documents[k].attachments :
                NotUploaded(source.documents[k].attachments[j]) =>
                    /\ NoteRecorded(source.documents[k])
                    /\ tojoplinid(source.documents[k].guid) \in Ids(target.notes)
                    /\ Dropped(source.documents[k], source.documents[k].attachments[j])

----------------------------------------------------------------------------
\* Properties of add_note

\* the run has posted the note of document k and add_note has returned for it
NoteAdded(k) ==
    /\ \E i \in DOMAIN log :
          /\ log[i].op = "post_note"
          /\ log[i].ok
          /\ log[i].key = tojoplinid(source.documents[k].guid)
    /\ ~(run.di = k /\ run.pc \in {"add_note", "add_internal_lnk"})

\* C21: once add_note has returned for the note created for a document, the
\* tables of the cache hold the row of the note, a note_tag row for every tag
\* of the document and an internal_link row for every link of the note.
C21_NoteInsertCascades ==
    \A k \in DOMAIN source.documents :
        NoteAdded(k) =>
            LET d == source.documents[k]
            IN  /\ NoteRecorded(d)
                /\ \A j \in DOMAIN d.tags :
                      \E row \in db.note_tag :
                          /\ row.note_id = tojoplinid(d.guid)
                          /\ row.tag_id = tojoplinid(d.tags[j].guid)
                /\ \A l \in CachedNote(d).internal_links :
                      \E row \in db.internal_link :
                          /\ row.note_id = l.note_id
                          /\ row.resource_id = l.resource_id

\* the references of the body of note n: the resource ids of its forms
BodyReferences(n) == { n.body[i].a : i \in { i \in DOMAIN n.body : n.body[i].t \in Forms } }

\* C22: in every state, the process being one that can be terminated there,
\* a note row of the cache comes with an internal_link row for every reference
\* that the body of the note holds: the tables never hold the row of a note
\* without the rows of its links.
C22_NoteInsertOneUnit ==
    \A row \in db.note :
        \A n \in target.notes :
            n.id = row.note_id =>
                \A resource_id \in BodyReferences(n) :
                    \E link \in db.internal_link :
                        /\ link.note_id = row.note_id
                        /\ link.resource_id = resource_id

----------------------------------------------------------------------------
\* Properties of the uploads

\* the names under which the files of document d are uploaded
UploadNames(d) ==
    { d.attachments[j].file_name : j \in DOMAIN d.attachments }
        \cup { basename(d.images[j].file) :
                 j \in { j \in DOMAIN d.images : d.images[j].file # None } }

\* the resources of the target: each was made by a create-resource call of a
\* run, the target having none before the first run
Created == Range(target.resources)

\* C19: when the run has completed, _sync_note having returned for every
\* document, every resource that a create-resource call made from a file of a
\* document is in the resource table of the cache under its id.
C19_UploadsRecorded ==
    run.pc = "done" =>
        \A k \in DOMAIN source.documents :
            \A r \in Created :
                r.title \in UploadNames(source.documents[k]) =>
                    \E row \in db.resource : row.id = r.id

\* the call at place i of the log listed the resources and no upload followed
ListedOnly(i) ==
    /\ log[i].op = "get_resources"
    /\ (i = Len(log) \/ log[i + 1].op # "create_resource")

\* C20: every create-resource call of a run comes right after a listing of
\* the resources for the same file name; a listing that found the name is
\* followed by no upload; and over all the runs the target never holds two
\* resources of one file name.
C20_FilenameDedup ==
    /\ \A i \in DOMAIN log :
          log[i].op = "create_resource" =>
              /\ i > 1
              /\ log[i - 1].op = "get_resources"
              /\ log[i - 1].key = log[i].key
    /\ \A i, j \in DOMAIN target.resources :
          target.resources[i].filename = target.resources[j].filename => i = j
    /\ \A i \in DOMAIN log :
          ListedOnly(i) => \E r \in Created : r.filename = log[i].key

\* a run started after a terminated one has listed the resources for a file
\* that the terminated run had uploaded, and has uploaded nothing
C20_Witness ==
    /\ restarts > 0
    /\ run.pc = "done"
    /\ \E i \in DOMAIN log : ListedOnly(i)
    /\ CallsOf({"create_resource"}) = <<>>
    /\ target.resources # <<>>

----------------------------------------------------------------------------
\* Properties of the order of the calls of a run

\* folders, then tags, then the documents
PhaseOf(op) ==
    IF op = "post_folder" THEN 1
    ELSE IF op \in {"post_tag", "get_tag"} THEN 2
    ELSE 3

\* the place in the store of the document whose note has that id
DocumentOf(note_id) ==
    CHOOSE k \in DOMAIN source.documents : tojoplinid(source.documents[k].guid) = note_id

NoteCallsAfter(i) == { j \in DOMAIN log : j > i /\ log[j].op = "post_note" }

\* the document for which the call at place i of the log was made: the one
\* of the next create-note call, or the one at work when there is none yet
DocumentAt(i) ==
    IF NoteCallsAfter(i) = {} THEN run.di
    ELSE DocumentOf(log[CHOOSE j \in NoteCallsAfter(i) :
                              \A h \in NoteCallsAfter(i) : j <= h].key)

\* C23: in the calls of a run every create-folder call comes before every
\* create-tag call and every create-tag call before every create-resource and
\* create-note call; the create-note calls follow the order of the documents,
\* the note of every earlier document of the run being recorded when one is
\* made; and
\* every create-resource call is made for a file of the document whose
\* create-note call is the next one (so after the create-note call of the
\* document before it).
C23_StrictPhaseOrder ==
    /\ \A i, j \in DOMAIN log : i < j => PhaseOf(log[i].op) <= PhaseOf(log[j].op)
    /\ \A i, j \in DOMAIN log :
          (i < j /\ log[i].op = "post_note" /\ log[j].op = "post_note") =>
              DocumentOf(log[i].key) < DocumentOf(log[j].key)
    /\ \A i \in DOMAIN log :
          log[i].op = "post_note" =>
              \A k \in 1..(DocumentOf(log[i].key) - 1) :
                  (source.args.all \/ InScope(source.documents[k])) =>
                      NoteRecorded(source.documents[k])
    /\ \A i \in DOMAIN log :
          log[i].op = "create_resource" =>
              /\ NoteCallsAfter(i) = {} => run.pc \in NotePhase
              /\ log[i].key \in UploadNames(source.documents[DocumentAt(i)])

\* a completed run has made a create-folder call, a create-tag call, the
\* create-resource and create-note calls of a document, and then the listing of
\* the resources and the create-note call of another document
C23_Witness ==
    /\ run.pc = "done"
    /\ \E f, t, r1, n1, r2, n2 \in DOMAIN log :
          /\ f < t /\ t < r1 /\ r1 < n1 /\ n1 < r2 /\ r2 < n2
          /\ log[f].op = "post_folder"
          /\ log[t].op = "post_tag"
          /\ log[r1].op = "create_resource"
          /\ log[n1].op = "post_note"
          /\ log[r2].op = "get_resources"
          /\ log[n2].op = "post_note"

----------------------------------------------------------------------------
\* Properties of the folder chain

\* C27: the entry made from the path of k segments has the last segment as
\* its title, k as its level, and as its parent location the path of the
\* first k - 1 segments, or none when k = 1; it has no id and no parent id.
C27_HierarchyDerivation ==
    run.pc = "built" =>
        LET k == Len(source.segments)
        IN  /\ run.l2f.location = source.location
            /\ run.l2f.title = source.segments[k]
            /\ run.l2f.level = k
            /\ run.l2f.parent_location =
                  IF k > 1 THEN Wrapped(SubSeq(source.segments, 1, k - 1)) ELSE None
            /\ run.l2f.id = None
            /\ run.l2f.parent_id = None

\* an entry was made from a path of three segments, the last of two characters
C27_Witness ==
    /\ run.pc = "built"
    /\ Len(source.segments) = 3
    /\ source.segments[3] = <<"a", "b">>
    /\ run.l2f.parent_location = Wrapped(SubSeq(source.segments, 1, 2))

\* the location and the locations above it: the parts of the path that end
\* with "/"
PathToTop(location) ==
    { SubSeq(location, 1, n) : n \in { n \in 2..Len(location) : location[n] = "/" } }

Registered(location) ==
    \A a \in PathToTop(location) :
        /\ \E i \in DOMAIN mem.l2f_cache : mem.l2f_cache[i].location = a
        /\ \E i \in DOMAIN db.l2f : db.l2f[i].location = a

\* the rows of l2f that the process found when it started
FoundAtStart(location) == \E i \in DOMAIN prev.db.l2f : prev.db.l2f[i].location = location

\* C28: once build_location_to_top has returned for the location of a
\* document, and so once convert_l2f has returned, the chain and the table
\* hold an entry for the location and for every location above it; when
\* convert_l2f returns, the entries it has inserted have no id and no parent
\* id.  The tables the process starts from are those that any terminated
\* process has left.
C28_AncestorClosure ==
    /\ run.pc = "build" =>
          \A k \in 1..(run.di - 1) : Registered(source.documents[k].location)
    /\ run.pc \notin {"start", "build"} =>
          \A k \in DOMAIN source.documents : Registered(source.documents[k].location)
    /\ run.pc = "load" =>
          \A i \in DOMAIN db.l2f :
              ~FoundAtStart(db.l2f[i].location) =>
                  (db.l2f[i].id = None /\ db.l2f[i].parent_id = None)

\* convert_l2f has returned in a process that found the row of /a/b/ and no
\* row of /a/, and has inserted the entry of /a/
C28_Witness ==
    /\ run.pc = "load"
    /\ FoundAtStart(LocAB)
    /\ ~FoundAtStart(LocA)
    /\ Registered(LocAB)

\* C29: in every state, the process being one that can be terminated there,
\* the table l2f holds, for every row that has a parent location, the row of
\* that parent location: the row of a parent is there before the row of its
\* child.
C29_ParentRegisteredFirst ==
    \A i \in DOMAIN db.l2f :
        db.l2f[i].parent_location # None =>
            \E j \in DOMAIN db.l2f :
                /\ db.l2f[j].location = db.l2f[i].parent_location
                /\ j < i

\* the calls that the step adds to the log
NewCalls == IF Len(log') > Len(log) THEN SubSeq(log', Len(log) + 1, Len(log')) ELSE <<>>

\* the ids of the rows of l2f that have one
IdOfRow(rows, location) ==
    LET at == { i \in DOMAIN rows : rows[i].location = location }
    IN  IF at = {} THEN None ELSE rows[CHOOSE i \in at : TRUE].id

\* C24: a row of l2f that has an id keeps it in every step, those that end a
\* process and start the next one included, and no step makes a create-folder
\* call for its location.
C24_FolderIdSetOnce ==
    [][\A i \in DOMAIN db.l2f :
          db.l2f[i].id # None =>
              /\ IdOfRow(db'.l2f, db.l2f[i].location) = db.l2f[i].id
              /\ \A c \in DOMAIN NewCalls :
                    ~(NewCalls[c].op = "post_folder" /\ NewCalls[c].key = db.l2f[i].location)]_vars

\* a process started after a terminated one has found a row with an id and a
\* row without one, has made a create-folder call, and the row that had an id
\* has the same one
C24_Witness ==
    /\ restarts > 0
    /\ run.pc = "done"
    /\ CallsOf({"post_folder"}) # <<>>
    /\ \E i \in DOMAIN prev.db.l2f :
          /\ prev.db.l2f[i].id # None
          /\ IdOfRow(db.l2f, prev.db.l2f[i].location) = prev.db.l2f[i].id
    /\ \E i \in DOMAIN prev.db.l2f : prev.db.l2f[i].id = None

\* the entry of the chain that update_l2f was called for, before the call
EntryBefore == L2fGet(prev.db.l2f, run.call.location)

\* C25: update_l2f called for an entry that has an id leaves the id as it was,
\* in l2f_cache and in the row of l2f, and called for an entry that has a
\* parent id leaves the parent id as it was.
C25_UpdateWriteOnce ==
    (run.pc = "returned" /\ run.call.op = "update_l2f") =>
        LET in_memory == L2fGet(mem.l2f_cache, run.call.location)
            in_row    == L2fGet(db.l2f, run.call.location)
        IN  /\ EntryBefore.id # None =>
                  (in_memory.id = EntryBefore.id /\ in_row.id = EntryBefore.id)
            /\ EntryBefore.parent_id # None =>
                  /\ in_memory.parent_id = EntryBefore.parent_id
                  /\ in_row.parent_id = EntryBefore.parent_id

\* the methods that insert a record when the cache does not hold its key
InsertOps ==
    {"build_location_to_top", "add_tag", "add_resource", "add_internal_lnk",
     "add_note_tag", "add_note"}

\* the key of the record of the call was in the tables before the call
KeyPresent ==
    LET c == run.call
        before == prev.db
    IN  CASE c.op = "build_location_to_top" ->
                \E i \in DOMAIN before.l2f : before.l2f[i].location = c.location
          [] c.op = "add_tag" -> \E row \in before.tag : row.id = c.tag.id
          [] c.op = "add_resource" -> \E row \in before.resource : row.id = c.jr.id
          [] c.op = "add_internal_lnk" ->
                \E row \in before.internal_link :
                    row.note_id = c.jil.note_id /\ row.resource_id = c.jil.resource_id
          [] c.op = "add_note_tag" ->
                \E row \in before.note_tag :
                    row.note_id = c.note.id /\ row.tag_id = c.tag.id
          [] c.op = "add_note" -> \E row \in before.note : row.note_id = c.note.id

\* the table of the call holds what it held and the record of the call
RecordAdded ==
    LET c == run.call
        before == prev.db
    IN  CASE c.op = "build_location_to_top" ->
                /\ \A i \in DOMAIN before.l2f : db.l2f[i] = before.l2f[i]
                /\ \E i \in DOMAIN db.l2f : db.l2f[i] = Location2Folder(c.location)
          [] c.op = "add_tag" -> db.tag = before.tag \cup {c.tag}
          [] c.op = "add_resource" -> db.resource = before.resource \cup {c.jr}
          [] c.op = "add_internal_lnk" ->
                db.internal_link = before.internal_link \cup
                    {[ note_id |-> c.jil.note_id, resource_id |-> c.jil.resource_id,
                       title |-> c.jil.title, link_type |-> c.jil.link_type ]}
          [] c.op = "add_note_tag" ->
                \E row \in db.note_tag :
                    row.note_id = c.note.id /\ row.tag_id = c.tag.id
          [] c.op = "add_note" ->
                /\ \E row \in db.note : row.note_id = c.note.id
                /\ Cardinality(db.note) = Cardinality(before.note) + 1

\* the dicts that mirror the tables
Mirror(m) ==
    [ l2f_cache |-> m.l2f_cache, tags |-> m.tags, resources |-> m.resources,
      internal_links |-> m.internal_links, notes |-> m.notes ]

\* C26: a method that inserts a record, called with a key the cache holds,
\* returns without an error and leaves the tables and the dicts as they were;
\* called with a key the cache does not hold, it returns without an error and
\* the table holds the record.
C26_InsertIfAbsent ==
    (run.pc \in {"returned", "raised"} /\ run.call.op \in InsertOps) =>
        /\ run.pc = "returned"
        /\ KeyPresent => (db = prev.db /\ Mirror(mem) = Mirror(MemOfDb(prev.db)))
        /\ ~KeyPresent => RecordAdded

----------------------------------------------------------------------------
\* Properties of _sync_note: the links of a note

\* the body of document d links to attachment a
Inline(d, a) == \E i \in DOMAIN d.internal_links : d.internal_links[i].guid = a.guid

\* the file of attachment a was there and the target holds a resource of its name
Uploaded(a) ==
    /\ "file_path" \in DOMAIN a
    /\ a.file_path
    /\ \E i \in DOMAIN target.resources : target.resources[i].title = a.file_name

\* the ids of the resources of the target of that file name
ResourcesNamed(filename) ==
    { target.resources[i].id : i \in { k \in DOMAIN target.resources :
                                          target.resources[k].title = filename } }

\* link jil is a reference to attachment a: to its converted guid, as the
\* links found in the body are, or to the resource made from it
RefersTo(jil, a) ==
    /\ jil.link_type = "open_attachment"
    /\ \/ jil.resource_id = tojoplinid(a.guid)
       \/ jil.resource_id \in ResourcesNamed(a.file_name)

----------------------------------------------------------------------------
\* Properties of convert_l2f

Slashes(a) == { n \in 1..Len(a) : a[n] = "/" }

\* the location above a, none for a location of one segment
ParentOf(a) ==
    LET above == PathToTop(a) \ {a}
    IN  IF above = {} THEN None
        ELSE CHOOSE p \in above : \A q \in above : Len(q) <= Len(p)

\* the last segment of a
TitleOf(a) ==
    IF ParentOf(a) = None THEN SubSeq(a, 2, Len(a) - 1)
    ELSE SubSeq(a, Len(ParentOf(a)) + 1, Len(a) - 1)

\* what the set of the documents' locations asks for, whatever their order:
\* one entry for each location and each location above one
ChainOfLocations ==
    { [ location |-> a, title |-> TitleOf(a), parent_location |-> ParentOf(a),
        level |-> Cardinality(Slashes(a)) - 1 ] :
        a \in UNION { PathToTop(source.documents[k].location) : k \in DOMAIN source.documents } }

Shape(e) ==
    [ location |-> e.location, title |-> e.title, parent_location |-> e.parent_location,
      level |-> e.level ]

OnePerLocation(chain) ==
    \A i, j \in DOMAIN chain : chain[i].location = chain[j].location => i = j

\* C31: when convert_l2f has returned, the locations, titles, parent locations
\* and levels of the entries of the chain, and of the rows of l2f, are those
\* that the set of the documents' locations determines, the same for every
\* order of the documents and for every table a terminated process has left,
\* with one entry for each location.
C31_ChainOrderIndependent ==
    run.pc = "load" =>
        /\ { Shape(mem.l2f_cache[i]) : i \in DOMAIN mem.l2f_cache } = ChainOfLocations
        /\ { Shape(db.l2f[i]) : i \in DOMAIN db.l2f } = ChainOfLocations
        /\ OnePerLocation(mem.l2f_cache)
        /\ OnePerLocation(db.l2f)

\* convert_l2f has returned for a document of /a/ followed by a document of
\* /a/b/, in a process that found some rows and has inserted others
C31_Witness ==
    /\ run.pc = "load"
    /\ Len(source.documents) = 2
    /\ source.documents[1].location = LocA
    /\ source.documents[2].location = LocAB
    /\ restarts >= 1
    /\ prev.db.l2f # <<>>
    /\ Len(prev.db.l2f) < Len(db.l2f)

----------------------------------------------------------------------------
\* Properties of _sync_note: the folder of a note

\* the id recorded in the rows of l2f for a location (None when there is none)
ChainId(location) ==
    IF \E i \in DOMAIN db.l2f : db.l2f[i].location = location
    THEN db.l2f[CHOOSE i \in DOMAIN db.l2f : db.l2f[i].location = location].id
    ELSE None

\* the documents whose converted guid is note_id
DocumentsOf(note_id) ==
    { k \in DOMAIN source.documents : tojoplinid(source.documents[k].guid) = note_id }

\* C32: every note of the target was created under the id that the folder
\* chain records for the location of its document, an id that is set and that
\* names a folder of the target made for that location; the row of the note
\* in the cache and the note held in memory carry the same folder id.
C32_NoteInItsFolder ==
    /\ \A n \in target.notes : \A k \in DocumentsOf(n.id) :
          /\ n.parent_id # None
          /\ n.parent_id = ChainId(source.documents[k].location)
          /\ \E f \in target.folders :
                f.id = n.parent_id /\ f.wiz_location = source.documents[k].location
    /\ \A row \in db.note : \A n \in target.notes :
          row.note_id = n.id => row.joplin_folder = n.parent_id
    /\ \A jn \in mem.notes : \A n \in target.notes :
          jn.id = n.id => jn.parent_id = n.parent_id

\* the notes of two documents of different locations, one of them below the
\* other, are in the target and in the cache
C32_Witness ==
    /\ run.pc = "done"
    /\ \E n, m \in target.notes :
          /\ n.parent_id # m.parent_id
          /\ \E k \in DocumentsOf(n.id) : source.documents[k].location = LocAB
          /\ \E k \in DocumentsOf(m.id) : source.documents[k].location = LocA
          /\ \E row \in db.note : row.note_id = n.id
          /\ \E row \in db.note : row.note_id = m.id

----------------------------------------------------------------------------
\* Properties of sync_folders: the parent of an entry

ParentErrors == {"parent not found", "parent no id"}

\* the entry sync_folders is about to create a folder for
EntryInTurn ==
    mem.l2f_cache[CHOOSE i \in DOMAIN mem.l2f_cache :
                      mem.l2f_cache[i].location = run.waiting[run.fi]]

\* C33: however the earlier processes were terminated and run again over the
\* same documents, sync_folders never stops on a parent that the chain lacks
\* or a parent without id: each entry it comes to is a root entry or has a
\* parent entry whose id is set.
C33_ParentErrorUnreachable ==
    /\ run.error \notin ParentErrors
    /\ run.pc = "folder" =>
          \/ EntryInTurn.parent_location = None
          \/ \E i \in DOMAIN mem.l2f_cache :
                /\ mem.l2f_cache[i].location = EntryInTurn.parent_location
                /\ mem.l2f_cache[i].id # None

\* sync_folders is over in a process that found a row with a parent location
\* and no row of that parent (the process before it was killed in between)
C33_Witness ==
    /\ run.pc = "sync_tags"
    /\ prev.end = "killed"
    /\ \E i \in DOMAIN prev.db.l2f :
          /\ prev.db.l2f[i].parent_location # None
          /\ \A j \in DOMAIN prev.db.l2f :
                prev.db.l2f[j].location # prev.db.l2f[i].parent_location
    /\ \E i \in DOMAIN log : log[i].op = "post_folder" /\ log[i].level = 2

----------------------------------------------------------------------------
\* Properties of sync_folders: the chain it leaves

\* sync_folders has returned in this process, without an error
FoldersSynced == SyncFoldersOver /\ run.error \notin ParentErrors

\* every entry has an id, a root entry has no parent id, and another entry has
\* as parent id the id of the entry of its parent location
ChainComplete(entries) ==
    \A i \in DOMAIN entries :
        /\ entries[i].id # None
        /\ entries[i].parent_location = None => entries[i].parent_id = None
        /\ entries[i].parent_location # None =>
              \E j \in DOMAIN entries :
                  /\ entries[j].location = entries[i].parent_location
                  /\ entries[j].id = entries[i].parent_id

\* C34: once sync_folders has returned without error, in the chain held in
\* memory and in the table l2f no entry is without id (nothing waits to be
\* created), a root entry has no parent id, and every other entry has the id
\* of the entry of its parent location as its parent id.
C34_ChainCompleteAfterSync ==
    FoldersSynced =>
        /\ ChainComplete(mem.l2f_cache)
        /\ ChainComplete(db.l2f)
        /\ get_waiting_for_created_l2f(mem.l2f_cache) = <<>>

\* sync_folders has returned after a process that was killed between the
\* create-folder call of a parent and the recording of its id
C34_Witness ==
    /\ run.pc = "sync_tags"
    /\ prev.end = "killed"
    /\ \E f \in prev.target.folders :
          \A i \in DOMAIN prev.db.l2f : prev.db.l2f[i].id # f.id
    /\ \E i \in DOMAIN db.l2f : db.l2f[i].parent_location # None

----------------------------------------------------------------------------
\* Properties of the uploads: two files of one name

\* the part of a path after its last "/"
FileName(file) ==
    LET cuts == { n \in DOMAIN file : file[n] = "/" }
        last == IF cuts = {} THEN 0 ELSE CHOOSE n \in cuts : \A m \in cuts : m <= n
    IN  SubSeq(file, last + 1, Len(file))

\* the images of document k whose file is there
ImagesThere(k) ==
    { j \in DOMAIN source.documents[k].images :
        /\ source.documents[k].images[j].file # None
        /\ source.documents[k].images[j].exists }

NoteInTarget(k) == tojoplinid(source.documents[k].guid) \in Ids(target.notes)

\* the body of the note of document k holds a reference to resource id
BodyNames(k, id) ==
    LET body == (CHOOSE n \in target.notes :
                    n.id = tojoplinid(source.documents[k].guid)).body
    IN  \E i \in DOMAIN body : body[i].t \in Forms /\ body[i].a = id

\* C35: the target never holds two resources of one name, so of two files of
\* the same name in different directories only one, the first that a run came
\* to, was uploaded; and when two documents each have an image of that name,
\* the notes of both refer to the one resource of that name.
C35_SameNameOneResource ==
    /\ \A i, j \in DOMAIN target.resources :
          target.resources[i].title = target.resources[j].title => i = j
    /\ \A k, l \in DOMAIN source.documents :
          \A a \in ImagesThere(k), b \in ImagesThere(l) :
              ( /\ k # l
                /\ source.documents[k].images[a].file # source.documents[l].images[b].file
                /\ FileName(source.documents[k].images[a].file)
                       = FileName(source.documents[l].images[b].file)
                /\ NoteInTarget(k)
                /\ NoteInTarget(l) )
              => \E i \in DOMAIN target.resources :
                    /\ target.resources[i].title
                           = FileName(source.documents[k].images[a].file)
                    /\ BodyNames(k, target.resources[i].id)
                    /\ BodyNames(l, target.resources[i].id)

\* a run has completed for the document of /a/ followed by the document of
\* /a/b/, whose images are the files 3/p and 1/p: the target has one resource
C35_Witness ==
    /\ run.pc = "done"
    /\ Len(source.documents) = 2
    /\ source.documents[1].location = LocA
    /\ source.documents[2].location = LocAB
    /\ NoteInTarget(1)
    /\ NoteInTarget(2)
    /\ Len(target.resources) = 1
    /\ BodyNames(2, target.resources[1].id)

----------------------------------------------------------------------------
\* Properties of sync_tags: two tags of one title

UniqueTitles(tags) == \A t, u \in tags : t.title = u.title => t = u

\* two tags of the store have different guids and the same name
SameNameTags ==
    \E i, j \in DOMAIN source.tags :
        /\ source.tags[i].guid # source.tags[j].guid
        /\ source.tags[i].name = source.tags[j].name

DocumentOps == {"get_resources", "create_resource", "post_note"}

\* C36: the table tag and the tags held in memory never hold two tags of one
\* title.  For a store with two tags of the same name and different guids, the
\* target taking both, no process comes to the documents: it makes no call for
\* a document, and when it ends it has stopped on the error of the INSERT of
\* the second tag (which sync_tags does not catch), also when run again.
C36_DuplicateTitleFatal ==
    /\ UniqueTitles(db.tag)
    /\ UniqueTitles(mem.tags)
    /\ SameNameTags =>
          /\ run.pc \notin NotePhase \cup {"done"}
          /\ \A i \in DOMAIN log : log[i].op \notin DocumentOps
          /\ target.notes = {}
          /\ run.pc \in Ended => (run.pc = "aborted" /\ run.error = "IntegrityError")

\* a process has stopped on the second tag, the target holding both tags and
\* the cache the first one
C36_Witness ==
    /\ SameNameTags
    /\ run.pc = "aborted"
    /\ run.error = "IntegrityError"
    /\ \E t, u \in target.tags : t.id # u.id /\ t.title = u.title
    /\ Cardinality(db.tag) = 1

----------------------------------------------------------------------------
\* Properties of sync_note_by_location: folders and tags

\* sync_folders and sync_tags have returned: the locations are about to be
\* listed, or were, with or without the error of a location that is not known
FoldersAndTagsSynced ==
    \/ run.pc \in {"locations", "done"} \cup NotePhase
    \/ run.pc = "aborted" /\ run.error \in {"ValueError", "post_note", "AttributeError"}

\* the target has a folder made for the location, whose id the chain records
FolderMade(location) ==
    \E f \in target.folders :
        /\ f.wiz_location = location
        /\ \E i \in DOMAIN db.l2f : db.l2f[i].location = location /\ db.l2f[i].id = f.id

\* C37: when sync_note_by_location comes to list the locations, and so before
\* it finds out whether the location asked for is known, the target has a
\* folder for the location of every document of the store and for every
\* location above one, and every tag of the store, in or out of the subtree
\* asked for; the notes of the target are those of documents asked for.
C37_SubsetSyncsWholeHierarchy ==
    /\ FoldersAndTagsSynced =>
          /\ \A k \in DOMAIN source.documents :
                \A a \in PathToTop(source.documents[k].location) : FolderMade(a)
          /\ \A i \in DOMAIN source.tags :
                /\ tojoplinid(source.tags[i].guid) \in Ids(target.tags)
                /\ tojoplinid(source.tags[i].guid) \in Ids(db.tag)
    /\ \A n \in target.notes : \A k \in DocumentsOf(n.id) : InScope(source.documents[k])

\* the run has stopped on a location that is not known, after it had made the
\* folders of two levels and a tag
C37_Witness ==
    /\ run.pc = "aborted"
    /\ run.error = "ValueError"
    /\ source.args.location = LocX
    /\ FolderMade(LocAB)
    /\ FolderMade(LocA)
    /\ target.tags # {}
    /\ target.notes = {}

----------------------------------------------------------------------------
\* Properties of the folder chain: levels

\* every entry has a level of 1 or more, no parent location exactly at level
\* 1, and a level one above that of the entry of its parent location
LevelsRight(entries) ==
    \A i \in DOMAIN entries :
        /\ entries[i].level >= 1
        /\ entries[i].parent_location = None <=> entries[i].level = 1
        /\ \A j \in DOMAIN entries :
              entries[j].location = entries[i].parent_location =>
                  entries[i].level = entries[j].level + 1

\* every entry that has a parent location has the entry of that location
ParentsThere(entries) ==
    \A i \in DOMAIN entries :
        entries[i].parent_location # None =>
            \E j \in DOMAIN entries : entries[j].location = entries[i].parent_location

\* C38: in every state the entries of the chain held in memory and the rows
\* of l2f have a level of 1 or more, no parent location exactly when the level
\* is 1, and the level of the entry of their parent location plus 1; once
\* convert_l2f has returned the chain holds that parent entry, so the list
\* sorted by level has every entry after the entries of the locations above it.
C38_LevelInvariant ==
    /\ LevelsRight(mem.l2f_cache)
    /\ LevelsRight(db.l2f)
    /\ run.pc \notin {"start", "build"} =>
          /\ ParentsThere(mem.l2f_cache)
          /\ LET sorted == SortByLevel(mem.l2f_cache)
             IN  \A i, j \in DOMAIN sorted :
                     sorted[j].location = sorted[i].parent_location => j < i

\* the chain holds entries of levels 1 and 2, the child inserted before its
\* parent, and sync_folders has been called
C38_Witness ==
    /\ run.pc = "folder"
    /\ \E i, j \in DOMAIN mem.l2f_cache :
          /\ i < j
          /\ mem.l2f_cache[i].level = 2
          /\ mem.l2f_cache[j].level = 1
          /\ mem.l2f_cache[i].parent_location = mem.l2f_cache[j].location

----------------------------------------------------------------------------
\* Properties of sync_tags

TagCalls == CallsOf({"post_tag"})

\* the tags of the store that the cache did not hold when the run began
TagsNotCached ==
    { tojoplinid(source.tags[i].guid) : i \in DOMAIN source.tags } \ Ids(prev.db.tag)

\* sync_tags has returned
SyncTagsOver == run.pc \in NotePhase \cup {"locations", "done"}

\* C17: create-tag is called only for tags of the store that the cache did not
\* hold, and once sync_tags has returned for each of them; a tag that a call
\* has created or found in the target is in the cache as soon as add_tag is
\* over; the run does not stop on the recording of a tag; after sync_tags has
\* returned every tag of the store is in the cache; the target holds no two
\* tags of one id.
C17_TagReconciliation ==
    /\ \A i \in DOMAIN TagCalls : TagCalls[i].key \in TagsNotCached
    /\ \A i \in DOMAIN TagCalls :
          (run.pc = "tag_add" /\ run.jt.id = TagCalls[i].key) \/ TagCalls[i].key \in Ids(db.tag)
    /\ run.pc = "aborted" => run.error # "IntegrityError"
    /\ SyncTagsOver =>
          /\ TagsNotCached = { TagCalls[i].key : i \in DOMAIN TagCalls }
          /\ \A i \in DOMAIN source.tags : tojoplinid(source.tags[i].guid) \in Ids(db.tag)
    /\ Cardinality(Ids(target.tags)) = Cardinality(target.tags)

----------------------------------------------------------------------------
\* Properties of tojoplinid and towizid

\* C14: a canonical guid converted by tojoplinid and back by towizid is the
\* guid again, an id of 32 hex digits converted by towizid and back by
\* tojoplinid is the id again, and no other canonical guid has the id that
\* tojoplinid gives to a canonical guid.
C14_IdRoundTrip ==
    /\ run.pc = "end" => run.value = source.value
    /\ (source.kind = "guid" /\ run.calls = 1) =>
          /\ Len(run.value) = 32
          /\ \A guid \in CanonicalGuids :
                tojoplinid(guid) = run.value => guid = source.value
    /\ (source.kind = "id" /\ run.calls = 1) => run.value \in CanonicalGuids

\* a guid with different digits on the two sides of every hyphen went both ways
C14_Witness ==
    /\ run.pc = "end"
    /\ source.kind = "guid"
    /\ \A i \in {8, 13, 18, 23} : source.value[i] # source.value[i + 2]
    /\ run.value = source.value

====
